---- MODULE Spec2Model ----
(***************************************************************************)
(* WebDGS: host-side orchestration of the 3D Gaussian Splatting trainer.   *)
(*                                                                         *)
(*   SpecGate     QueueGate (src/utils/queue-gate.ts) driven by a few      *)
(*                independent async callers, on the JavaScript event loop  *)
(*                (tasks + FIFO microtask queue).                          *)
(*   SpecApp      the render loop of main.ts, the Trainer and the gate.    *)
(*   SpecAppLive  SpecApp with the event loop's fairness.                  *)
(*   SpecTrain    SpecApp with the schedule sliders moved at any time.     *)
(*   SpecDensify  one densify/prune cycle: decide -> scan -> cap -> scan   *)
(*                -> total -> host readback -> scatter.                    *)
(*   SpecScatter  the same cycle with the optimizer-state scatter inputs.  *)
(*   SpecScan     the three-pass prefix scanner (src/prefix/prefix.ts).    *)
(*   SpecDecide   the densify cycle with decide_main on numeric inputs.    *)
(*   SpecAdam     the Adam pass of the optimizer on its buffers.           *)
(*   SpecRanges   the tile-range passes, one invocation at a time.         *)
(*   SpecEmit     the key emission of the forward pass.                    *)
(***************************************************************************)
EXTENDS Integers, Sequences, FiniteSets, TLC

\* ------------------------------------------------------------------ bounds
NumClients == 2
\* largest Gaussian count the application model lets a scene reach
MaxPoints == 3
\* densifyPruneConfig.maxNewPointsPerStep, scaled down from 5000
MaxNewPoints == 2
\* training.maxIterations, scaled down from 10000
MaxIterations == 2
\* largest input of one modelled densify/prune cycle
DensifyMaxPoints == 3
\* optimizer steps one optimizer is followed for
MaxOptimizerSteps == 3

ClientNames == <<"c1", "c2", "c3", "c4", "c5">>
GateClients == {ClientNames[i] : i \in 1..NumClients}
GateLimits == {1, 2}
NoOwner == "none"

Max(a, b) == IF a >= b THEN a ELSE b
Min(a, b) == IF a <= b THEN a ELSE b

VARIABLES
    \* QueueGate fields
    maxInFlight, inFlight, capacityWaiters, idleWaiters,
    \* GPU queue (owners of the submitted, unfinished works, oldest first),
    \* microtask queue, and each async caller's position
    works, mq, pc,
    \* observations made by the callers
    waited, lastEvent,
    \* Trainer fields: isTraining, iteration, pointCloud.num_points (0: no
    \* point cloud), optimizer.numPoints, the capacity of the optimizer's
    \* state buffers, pendingPointCloudSwap, and whether trainCameras and
    \* images are loaded
    isTraining, iteration, pointCloudN, optimizerN, optimizerBufN,
    trainerPending, hasCameras, hasImages,
    \* optimizer.iteration (Adam's step counter), densifyPruneConfig.schedule
    \* and maxIterations
    optimizerIteration, schedule, maxIterations,
    \* main.ts state: trainingBusy, swapBusy, pendingPointCloudSwap, the
    \* request captured by applyPendingPointCloudSwap, and whether the
    \* requestAnimationFrame loop is still scheduled
    trainingBusy, swapBusy, statePending, swapNext, loopAlive,
    \* locals of the trainer.step() call in progress: the await it is at,
    \* shouldDensify, the out_total read back and maxOutPoints of the
    \* prepared densify, and the buffers allocated for the scatter
    stepPhase, shouldDensify, outTotal, maxOutPoints, outAlloc,
    \* history: a step has rejected since the last start()
    failedSinceStart,
    \* one densify/prune cycle: stage, input size, per-Gaussian inputs of the
    \* decision, config, the out_counts / out_actions / out_offsets buffers,
    \* out_total, the host's outN, the slots written by the scatter, and the
    \* Gaussian count of the scene
    dpStage, dpGaussians, dpConfig, out_counts, out_actions, out_offsets,
    out_total, dpOutN, dpWritten, dpSceneN,
    \* the optimizer-state scatter: ScatterInfo.reset_new_state, the inputs
    \* whose sigmoid(opacity) exceeds OPACITY_MAX, and what the five
    \* optimizer passes wrote
    dpReset, dpOpacityHigh, dpOptWritten,
    \* one prefix scanner: its stage, max_elements, the input buffer, the
    \* info buffer (count, num_workgroups), the output buffer and block_sums
    scanStage, scanMax, scanInput, scanCount, scanGroups, scanOutput, block_sums,
    \* the Adam pass: the optimizer buffers (param, m, v of every component),
    \* the gradients and tile_counts buffers the backward pass left, and the
    \* number of Adam dispatches so far
    adamOpt, adamGrad, tile_counts, adamSteps,
    \* the tile-range passes: the pass in progress, its invocations still to
    \* run, TileInfo.total_tiles, the sorted key buffer, the total entry
    \* count of pipeline_stats, and the tile_offsets buffer
    rangeStage, rangePending, total_tiles, sorted_keys, total_tile_entries,
    tile_offsets,
    \* the key emission of the forward pass: the pass in progress, its
    \* invocations still to run, the projected Gaussians, and the depths,
    \* per-Gaussian offsets, tile_keys and tile_indices buffers
    emitStage, emitPending, emitGaussians, depths, emit_offsets, tile_keys,
    tile_indices

gateVars == <<maxInFlight, inFlight, capacityWaiters, idleWaiters>>
loopVars == <<works, mq, pc>>
obsVars == <<waited, lastEvent>>
cfgVars == <<schedule, maxIterations>>
trainerVars == <<isTraining, iteration, pointCloudN, optimizerN, optimizerBufN,
                 trainerPending, hasCameras, hasImages, optimizerIteration, cfgVars>>
mainVars == <<trainingBusy, swapBusy, statePending, swapNext, loopAlive>>
stepVars == <<stepPhase, shouldDensify, outTotal, maxOutPoints, outAlloc>>
appVars == <<trainerVars, mainVars, stepVars, failedSinceStart>>
dpVars == <<dpStage, dpGaussians, dpConfig, out_counts, out_actions, out_offsets,
            out_total, dpOutN, dpWritten, dpSceneN, dpReset, dpOpacityHigh,
            dpOptWritten>>
scanVars == <<scanStage, scanMax, scanInput, scanCount, scanGroups, scanOutput,
              block_sums>>
adamVars == <<adamOpt, adamGrad, tile_counts, adamSteps>>
rangeVars == <<rangeStage, rangePending, total_tiles, sorted_keys, total_tile_entries,
               tile_offsets>>
emitVars == <<emitStage, emitPending, emitGaussians, depths, emit_offsets, tile_keys,
              tile_indices>>
passVars == <<adamVars, rangeVars, emitVars>>
vars == <<gateVars, loopVars, obsVars, appVars, dpVars, scanVars, passVars>>

\* ------------------------------------------------------------- QueueGate

\* faulty variant: the capacity test off by one
canSubmitAtInclusive(inF) == inF <= maxInFlight

\* canSubmit(): inFlight < maxInFlight, for a given value of the counter
canSubmitAt(inF) == inF < maxInFlight
canSubmit == canSubmitAt(inFlight)

\* The waiters pumpWaiters() resolves.  The while loop re-reads inFlight,
\* which no resolve() changes (a resolved waiter only runs in a later
\* microtask), so it shifts out every capacity waiter or none.
pumpCapacity(inF, waiters) == IF inF < maxInFlight THEN waiters ELSE <<>>

\* faulty variant: only the oldest idle waiter is resolved, the array is
\* emptied all the same
pumpIdleFirst(inF, waiters) ==
    IF inF = 0 /\ waiters # <<>> THEN <<Head(waiters)>> ELSE <<>>

pumpIdle(inF, waiters) == IF inF = 0 THEN waiters ELSE <<>>

Task(kind, c) == [k |-> kind, c |-> c]
Tasks(kind, cs) == [i \in 1..Len(cs) |-> Task(kind, cs[i])]
Range(s) == {s[i] : i \in 1..Len(s)}

\* faulty variant: the counter is bumped before queue.submit is tried
submitInternalCountsFirst(owner, throws) ==
    /\ inFlight' = inFlight + 1
    /\ works' = IF throws THEN works ELSE Append(works, owner)

\* submitInternal: queue.submit (which may throw), inFlight++, and the
\* registration of the completion callback on onSubmittedWorkDone().
submitInternal(owner, throws) ==
    /\ inFlight' = IF throws THEN inFlight ELSE inFlight + 1
    /\ works' = IF throws THEN works ELSE Append(works, owner)

\* submit(): `await this.waitForCapacity()`.  With capacity the awaited
\* promise is already resolved and the continuation is one microtask away;
\* without, the caller is parked in capacityWaiters.  inF is the value of
\* inFlight the call reads and q the microtask queue it is called on.
submitAt(c, inF, q) ==
    /\ waited' = [waited EXCEPT ![c] = IF inF >= maxInFlight THEN "starved" ELSE "free"]
    /\ IF canSubmitAt(inF)
         THEN /\ mq' = Append(q, Task("submitCont", c))
              /\ pc' = [pc EXCEPT ![c] = "subRun"]
              /\ UNCHANGED capacityWaiters
         ELSE /\ capacityWaiters' = Append(capacityWaiters, c)
              /\ pc' = [pc EXCEPT ![c] = "capWait"]
              /\ mq' = q

submit(c) == submitAt(c, inFlight, mq)

\* waitForIdle(): returns at once when the gate is idle ("idlePass"),
\* otherwise parks the caller in idleWaiters ("idleWait", then "idleRun"
\* once pumpWaiters has resolved it).
waitForIdleAt(c, inF, q) ==
    /\ IF inF = 0
         THEN /\ mq' = Append(q, Task("idleCont", c))
              /\ pc' = [pc EXCEPT ![c] = "idlePass"]
              /\ UNCHANGED idleWaiters
         ELSE /\ idleWaiters' = Append(idleWaiters, c)
              /\ pc' = [pc EXCEPT ![c] = "idleWait"]
              /\ mq' = q

waitForIdle(c) == waitForIdleAt(c, inFlight, mq)

\* ---------------------------------------------- SpecGate: caller actions

CallSubmit(c) ==
    /\ UNCHANGED <<appVars, dpVars, scanVars, passVars>>
    /\ pc[c] = "idle"
    /\ submit(c)
    /\ lastEvent' = "other"
    /\ UNCHANGED <<maxInFlight, inFlight, idleWaiters, works>>

CallTrySubmit(c) ==
    /\ UNCHANGED <<appVars, dpVars, scanVars, passVars>>
    /\ pc[c] = "idle"
    /\ IF canSubmit
         THEN \E throws \in BOOLEAN :
                /\ submitInternal(NoOwner, throws)
                /\ lastEvent' = IF throws THEN "submitThrew" ELSE "other"
         ELSE /\ UNCHANGED <<inFlight, works>>
              /\ lastEvent' = "other"
    /\ UNCHANGED <<maxInFlight, capacityWaiters, idleWaiters, mq, pc, waited>>

CallWaitForIdle(c) ==
    /\ UNCHANGED <<appVars, dpVars, scanVars, passVars>>
    /\ pc[c] = "idle"
    /\ waitForIdle(c)
    /\ lastEvent' = "other"
    /\ UNCHANGED <<maxInFlight, inFlight, capacityWaiters, works, waited>>

\* ------------------------------------------------ GPU and microtask steps

\* The reactions of the first k `done` promises, in resolution order: the
\* gate's finally callback, then the resolution of the caller's submit().
DoneReactions(k) ==
    LET R[i \in 0..k] ==
          IF i = 0 THEN <<>>
          ELSE R[i - 1] \o <<Task("finally", NoOwner)>>
                        \o (IF works[i] = NoOwner THEN <<>>
                            ELSE <<Task("doneResolve", works[i])>>)
    IN R[k]

\* The browser resolves onSubmittedWorkDone() for the k oldest works, in a
\* task of its own (never inside a microtask checkpoint).
GpuWorkDone ==
    /\ UNCHANGED <<appVars, dpVars, scanVars, passVars>>
    /\ mq = <<>>
    /\ works # <<>>
    /\ \E k \in 1..Len(works) :
         /\ mq' = DoneReactions(k)
         /\ works' = SubSeq(works, k + 1, Len(works))
         /\ pc' = [c \in DOMAIN pc |->
                     IF \E i \in 1..k : works[i] = c THEN "doneRun" ELSE pc[c]]
    /\ lastEvent' = "other"
    /\ UNCHANGED <<gateVars, waited>>

\* done.finally(() => { inFlight = max(0, inFlight - 1); pumpWaiters(); })
RunFinally ==
    /\ UNCHANGED <<appVars, dpVars, scanVars, passVars>>
    /\ mq # <<>> /\ Head(mq).k = "finally"
    /\ LET inF == Max(0, inFlight - 1)
           cap == pumpCapacity(inF, capacityWaiters)
           idl == pumpIdle(inF, idleWaiters)
       IN /\ inFlight' = inF
          /\ capacityWaiters' = IF cap = <<>> THEN capacityWaiters ELSE <<>>
          /\ idleWaiters' = IF idl = <<>> THEN idleWaiters ELSE <<>>
          /\ mq' = Tail(mq) \o Tasks("capResume", cap) \o Tasks("idleResume", idl)
          /\ pc' = [c \in DOMAIN pc |->
                      IF c \in Range(cap) THEN "capRun"
                      ELSE IF c \in Range(idl) THEN "idleRun"
                      ELSE pc[c]]
    /\ waited' = [c \in DOMAIN pc |-> IF waited[c] = "starved" THEN "served" ELSE waited[c]]
    /\ lastEvent' = "other"
    /\ UNCHANGED <<maxInFlight, works>>

\* waitForCapacity() resumes after its promise and returns.
RunCapResume ==
    /\ UNCHANGED <<appVars, dpVars, scanVars, passVars>>
    /\ mq # <<>> /\ Head(mq).k = "capResume"
    /\ mq' = Append(Tail(mq), Task("submitCont", Head(mq).c))
    /\ pc' = [pc EXCEPT ![Head(mq).c] = "subRun"]
    /\ lastEvent' = "other"
    /\ UNCHANGED <<gateVars, works, waited>>

\* waitForIdle() resumes after its promise and returns.
RunIdleResume ==
    /\ UNCHANGED <<appVars, dpVars, scanVars, passVars>>
    /\ mq # <<>> /\ Head(mq).k = "idleResume"
    /\ mq' = Append(Tail(mq), Task("idleCont", Head(mq).c))
    /\ lastEvent' = "other"
    /\ UNCHANGED <<gateVars, works, pc, waited>>

\* submit()'s promise adopts the resolved `done`.
RunDoneResolve ==
    /\ UNCHANGED <<appVars, dpVars, scanVars, passVars>>
    /\ mq # <<>> /\ Head(mq).k = "doneResolve"
    /\ mq' = Append(Tail(mq), Task("doneCont", Head(mq).c))
    /\ lastEvent' = "other"
    /\ UNCHANGED <<gateVars, works, pc, waited>>

\* submit() continues after `await this.waitForCapacity()`.
GateSubmitCont ==
    /\ UNCHANGED <<appVars, dpVars, scanVars, passVars>>
    /\ mq # <<>> /\ Head(mq).k = "submitCont"
    /\ LET c == Head(mq).c IN
       \E throws \in BOOLEAN :
         /\ submitInternal(c, throws)
         /\ pc' = [pc EXCEPT ![c] = IF throws THEN "idle" ELSE "doneWait"]
         /\ waited' = [waited EXCEPT ![c] = IF throws THEN "free" ELSE @]
         /\ lastEvent' = IF throws THEN "submitThrew" ELSE "submitted"
    /\ mq' = Tail(mq)
    /\ UNCHANGED <<maxInFlight, capacityWaiters, idleWaiters>>

\* The caller of submit() resumes after the work is done.
GateDoneCont ==
    /\ UNCHANGED <<appVars, dpVars, scanVars, passVars>>
    /\ mq # <<>> /\ Head(mq).k = "doneCont"
    /\ pc' = [pc EXCEPT ![Head(mq).c] = "idle"]
    /\ waited' = [waited EXCEPT ![Head(mq).c] = "free"]
    /\ mq' = Tail(mq)
    /\ lastEvent' = "other"
    /\ UNCHANGED <<gateVars, works>>

\* The caller of waitForIdle() resumes and looks at the gate.
GateIdleCont ==
    /\ UNCHANGED <<appVars, dpVars, scanVars, passVars>>
    /\ mq # <<>> /\ Head(mq).k = "idleCont"
    /\ pc' = [pc EXCEPT ![Head(mq).c] = "idle"]
    /\ mq' = Tail(mq)
    /\ lastEvent' = IF pc[Head(mq).c] = "idleRun" THEN "idleResumed" ELSE "idlePassed"
    /\ UNCHANGED <<gateVars, works, waited>>

\* ------------------------------------------- densify/prune: pure stages

\* c_size_3d_gaussian: bytes of one packed Gaussian, and of its SH block
BytesPerGaussian == (3 + 1 + 4 + 4) * 2
BytesPerSh == 3 * 16 * 2

\* What decide_main reads of one Gaussian, as the outcome of its three
\* comparisons: sigmoid(opacity) < prune_opacity, metric count >=
\* clone_threshold_count, max scale >= split_scale_threshold.
GaussianKinds == [low : BOOLEAN, hot : BOOLEAN, big : BOOLEAN]

KEEP == 0
CLONE == 1
SPLIT == 2
PRUNE == 3

decide_action(g) ==
    IF g.low THEN PRUNE
    ELSE IF g.hot THEN (IF g.big THEN SPLIT ELSE CLONE)
    ELSE KEEP

decide_count(g) ==
    IF g.low THEN 0
    ELSE IF g.hot THEN 2
    ELSE 1

DecideCounts == {decide_count(g) : g \in GaussianKinds}

RECURSIVE SumFirst(_, _)
SumFirst(a, k) == IF k = 0 THEN 0 ELSE SumFirst(a, k - 1) + a[k]

\* The exclusive prefix sum the scanner leaves in its output buffer.  The
\* sums are u32; with counts of at most 2 per Gaussian they stay below 2^32
\* for every scene whose buffers fit the device limits.
ExclusiveScan(a) == [i \in 1..Len(a) |-> SumFirst(a, i - 1)]

\* faulty variant: the capacity clamp lets the slot at max_out through
cap_count_late(off, c, max_out) ==
    IF max_out = 0 THEN 0
    ELSE IF off > max_out THEN 0
    ELSE IF c = 2 /\ off = max_out - 1 THEN 1
    ELSE c

\* cap_main, per Gaussian: the count and the action it leaves behind
cap_count(off, c, max_out) ==
    IF max_out = 0 THEN 0
    ELSE IF off >= max_out THEN 0
    ELSE IF c = 2 /\ off = max_out - 1 THEN 1
    ELSE c

\* faulty variant: the degraded Gaussian keeps its CLONE / SPLIT action
cap_action_keeps(off, c, a, max_out) ==
    IF max_out = 0 THEN PRUNE
    ELSE IF off >= max_out THEN PRUNE
    ELSE a

cap_action(off, c, a, max_out) ==
    IF max_out = 0 THEN PRUNE
    ELSE IF off >= max_out THEN PRUNE
    ELSE IF c = 2 /\ off = max_out - 1 THEN KEEP
    ELSE a

cap_main(offsets, counts, max_out) ==
    [i \in 1..Len(counts) |-> cap_count(offsets[i], counts[i], max_out)]

\* faulty variant: the total forgets the last Gaussian's own count
total_main_prefix_only(n, prefix, counts) ==
    IF n = 0 THEN 0 ELSE prefix[n]

\* total_main: prefix[N-1] + out_counts[N-1]
total_main(n, prefix, counts) ==
    IF n = 0 THEN 0 ELSE prefix[n] + counts[n]

\* faulty variant: only the buffer limit caps the output
computeMaxOutPointsBufferOnly(num_points, gaussianBytes, shBytes, maxBufferBytes, maxNewPointsPerStep) ==
    LET safeBytes == Max(0, maxBufferBytes)
        n == Max(1, num_points)
        bytesPerGaussian == Max(1, gaussianBytes \div n)
        maxFromGaussian == safeBytes \div bytesPerGaussian
        bytesPerSh == Max(1, shBytes \div n)
        withSh == IF shBytes > 0
                    THEN Min(maxFromGaussian, safeBytes \div bytesPerSh)
                    ELSE maxFromGaussian
    IN Max(0, withSh)

\* computeMaxOutPoints, for a point cloud of num_points Gaussians whose
\* buffers hold gaussianBytes and shBytes bytes (shBytes = 0: no SH buffer)
computeMaxOutPoints(num_points, gaussianBytes, shBytes, maxBufferBytes, maxNewPointsPerStep) ==
    LET safeBytes == Max(0, maxBufferBytes)
        n == Max(1, num_points)
        bytesPerGaussian == Max(1, gaussianBytes \div n)
        maxFromGaussian == safeBytes \div bytesPerGaussian
        bytesPerSh == Max(1, shBytes \div n)
        withSh == IF shBytes > 0
                    THEN Min(maxFromGaussian, safeBytes \div bytesPerSh)
                    ELSE maxFromGaussian
        maxNew == Max(0, maxNewPointsPerStep)
        withNew == IF maxNew > 0 THEN Min(withSh, n + maxNew) ELSE withSh
    IN Max(0, withNew)

\* encodePrepare, as the value it leaves in out_total: decide, scan, cap,
\* scan again, total.
prepareTotal(counts, max_out) ==
    LET capped == cap_main(ExclusiveScan(counts), counts, max_out)
    IN total_main(Len(counts), ExclusiveScan(capped), capped)

\* faulty variant: the optimizer state is sized for the scene it is scattered from
allocateOptimizerStateBuffersLikeInput(numPoints) == Max(1, pointCloudN)

\* allocateOptimizerStateBuffers / allocatePointCloudLike: N = max(1, numPoints)
allocateOptimizerStateBuffers(numPoints) == Max(1, numPoints)
allocatePointCloudLike(numPoints) == Max(1, numPoints)

\* ------------------------------------------------- states after construction

NoReq == [n |-> 0, optN |-> 0, it |-> 0]

\* densifyPruneConfig.schedule, scaled down to the modelled run length
DensifySchedule ==
    [enabled |-> TRUE, warmupIterations |-> 1, interval |-> 1,
     stopIterations |-> MaxIterations]

\* syncTrainerConfig() at set-up, with the sliders at their initial values
SyncedConfig ==
    /\ schedule = DensifySchedule
    /\ maxIterations = MaxIterations

\* new Trainer(device, undefined, queueGate)
TrainerInit ==
    /\ isTraining = FALSE
    /\ iteration = 0
    /\ pointCloudN = 0
    /\ optimizerN = 0
    /\ optimizerBufN = 0
    /\ trainerPending = NoReq
    /\ hasCameras = FALSE
    /\ hasImages = FALSE
    /\ optimizerIteration = 0

\* the `state` object of main.ts, and no step in progress
MainInit ==
    /\ trainingBusy = FALSE
    /\ swapBusy = FALSE
    /\ statePending = NoReq
    /\ swapNext = NoReq
    /\ loopAlive = TRUE
    /\ stepPhase = "none"
    /\ shouldDensify = FALSE
    /\ outTotal = 0
    /\ maxOutPoints = 0
    /\ outAlloc = NoReq
    /\ failedSinceStart = FALSE

\* no optimizer created
AdamOff ==
    /\ adamOpt = <<>>
    /\ adamGrad = <<>>
    /\ tile_counts = <<>>
    /\ adamSteps = 0

\* no tiled rasterizer created
RangesOff ==
    /\ rangeStage = "none"
    /\ rangePending = {}
    /\ total_tiles = 0
    /\ sorted_keys = <<>>
    /\ total_tile_entries = 0
    /\ tile_offsets = <<>>

\* no forward pass created
EmitOff ==
    /\ emitStage = "none"
    /\ emitPending = {}
    /\ emitGaussians = <<>>
    /\ depths = <<>>
    /\ emit_offsets = <<>>
    /\ tile_keys = <<>>
    /\ tile_indices = <<>>

\* none of the stand-alone GPU passes has buffers
PassesOff ==
    /\ AdamOff
    /\ RangesOff
    /\ EmitOff

\* no prefix scanner created
ScanOff ==
    /\ scanStage = "none"
    /\ scanMax = 0
    /\ scanInput = <<>>
    /\ scanCount = 0
    /\ scanGroups = 1
    /\ scanOutput = <<>>
    /\ block_sums = <<>>

\* no densify/prune cycle encoded
DensifyOff ==
    /\ dpStage = "off"
    /\ dpGaussians = <<>>
    /\ dpConfig = [maxBufferBytes |-> 0, maxNewPointsPerStep |-> 0, sh |-> FALSE]
    /\ out_counts = <<>>
    /\ out_actions = <<>>
    /\ out_offsets = <<>>
    /\ out_total = 0
    /\ dpOutN = 0
    /\ dpWritten = {}
    /\ dpSceneN = 0
    /\ dpReset = TRUE
    /\ dpOpacityHigh = {}
    /\ dpOptWritten = {}
    /\ ScanOff

\* new QueueGate(queue, { maxInFlight })
GateInit ==
    /\ maxInFlight \in GateLimits
    /\ inFlight = 0
    /\ capacityWaiters = <<>>
    /\ idleWaiters = <<>>
    /\ works = <<>>
    /\ mq = <<>>
    /\ pc = [c \in GateClients |-> "idle"]
    /\ waited = [c \in GateClients |-> "free"]
    /\ lastEvent = "other"
    /\ TrainerInit
    /\ SyncedConfig
    /\ MainInit
    /\ DensifyOff
    /\ PassesOff

GateNext ==
    \/ \E c \in GateClients : CallSubmit(c)
    \/ \E c \in GateClients : CallTrySubmit(c)
    \/ \E c \in GateClients : CallWaitForIdle(c)
    \/ GpuWorkDone
    \/ RunFinally
    \/ RunCapResume
    \/ RunIdleResume
    \/ RunDoneResolve
    \/ GateSubmitCont
    \/ GateDoneCont
    \/ GateIdleCont

SpecGate == GateInit /\ [][GateNext]_vars

\* the microtask checkpoint of a gate client's event loop
GateMicrotasks ==
    \/ RunFinally
    \/ RunCapResume
    \/ RunIdleResume
    \/ RunDoneResolve
    \/ GateSubmitCont
    \/ GateDoneCont
    \/ GateIdleCont

\* The gate under the event loop's scheduling: queued microtasks run, and
\* the browser resolves onSubmittedWorkDone() of every submitted work.
SpecGateLive ==
    /\ GateInit
    /\ [][GateNext]_vars
    /\ WF_vars(GateMicrotasks)
    /\ SF_vars(GpuWorkDone)

\* ------------------------------------------------------------- Trainer

\* new QueueGate(device.queue, { maxInFlight: 2 })
AppMaxInFlight == 2

\* densifyPruneConfig.maxBufferBytes, scaled down to MaxPoints Gaussians
AppMaxBufferBytes == BytesPerSh * MaxPoints

AppProcs == {"step", "swap"}

\* the awaits of step() and runDensifyPruneMultiView(): the training
\* submission, the prepare submission, mapAsync, the scatter submission,
\* and the await of runDensifyPruneMultiView itself
StepBodyPhases == {"train", "prep", "map", "scatter", "tail"}

shouldDensifyAt(nextIteration) ==
    LET warmup == schedule.warmupIterations
        interval == Max(1, schedule.interval)
        stop == schedule.stopIterations
    IN /\ schedule.enabled
       /\ nextIteration >= warmup
       /\ nextIteration <= stop
       /\ (nextIteration = warmup \/ (nextIteration - warmup) % interval = 0)

\* applyPointCloudSwap(request): the old passes, optimizer and buffers are
\* destroyed; the optimizer is rebuilt for request.pointCloud and adopts
\* request.optimizerInitialState.buffers when given (optN # 0), else it
\* allocates its state for pointCloud.num_points.
applyPointCloudSwap(request) ==
    /\ pointCloudN' = request.n
    /\ optimizerN' = request.n
    /\ optimizerBufN' = IF request.optN # 0 THEN request.optN ELSE request.n
    /\ optimizerIteration' = request.it

clearStepLocals ==
    /\ shouldDensify' = FALSE
    /\ outTotal' = 0
    /\ maxOutPoints' = 0
    /\ outAlloc' = NoReq

\* faulty variant: the iteration is counted before the submission
stepCountsFirst(inF) ==
    IF ~isTraining \/ pointCloudN = 0 \/ ~hasImages
      THEN /\ stepPhase' = "resolved"
           /\ mq' = Append(mq, Task("stepSettled", "step"))
           /\ UNCHANGED <<shouldDensify, pc, waited, capacityWaiters, iteration,
                          optimizerIteration>>
      ELSE /\ stepPhase' = "train"
           /\ shouldDensify' = shouldDensifyAt(iteration + 1)
           /\ optimizerIteration' = optimizerIteration + 1
           /\ iteration' = iteration + 1
           /\ submitAt("step", inF, mq)

\* step() up to its first await, called with inFlight = inF
step(inF) ==
    IF ~isTraining \/ pointCloudN = 0 \/ ~hasImages
      THEN /\ stepPhase' = "resolved"
           /\ mq' = Append(mq, Task("stepSettled", "step"))
           /\ UNCHANGED <<shouldDensify, pc, waited, capacityWaiters, iteration,
                          optimizerIteration>>
      ELSE /\ stepPhase' = "train"
           /\ shouldDensify' = shouldDensifyAt(iteration + 1)
           \* optimizer.step(): this.iteration++ while encoding
           /\ optimizerIteration' = optimizerIteration + 1
           /\ UNCHANGED iteration
           /\ submitAt("step", inF, mq)

\* ------------------------------------------------ main.ts: the render loop

\* faulty variant: a step may start while training is stopped
canStartStepWhileStopped(req) == ~trainingBusy /\ ~swapBusy /\ req = NoReq

\* faulty variant: a step may start while another is in progress
canStartStepWhileBusy(req) == isTraining /\ ~swapBusy /\ req = NoReq

\* if (trainer.getIsTraining() && !trainingBusy && !swapBusy &&
\*     !pendingPointCloudSwap)
canStartStep(req) == isTraining /\ ~trainingBusy /\ ~swapBusy /\ req = NoReq

\* One requestAnimationFrame callback: the viewer's render through
\* trySubmit, the trainer's swap request, applyPendingPointCloudSwap up to
\* its await, and trainer.step() up to its await.
Frame ==
    /\ loopAlive
    /\ mq = <<>>
    /\ \E renderActive \in BOOLEAN, throws \in BOOLEAN :
         \* renderActive can only be switched on once a point cloud is loaded
         LET draws == /\ renderActive /\ pointCloudN # 0
                      /\ ~swapBusy /\ statePending = NoReq /\ canSubmit
             req == IF statePending = NoReq THEN trainerPending ELSE statePending
             steps == canStartStep(req) /\ pointCloudN # 0 /\ hasImages
         IN
         /\ throws => draws
         /\ (~throws /\ steps) => optimizerIteration < MaxOptimizerSteps
         /\ IF draws THEN submitInternal(NoOwner, throws)
                     ELSE UNCHANGED <<inFlight, works>>
         /\ IF throws
              THEN \* the exception leaves the callback before it re-arms itself
                   /\ loopAlive' = FALSE
                   /\ lastEvent' = "submitThrew"
                   /\ UNCHANGED <<trainerVars, trainingBusy, swapBusy, statePending,
                                  swapNext, stepVars, mq, pc, waited,
                                  capacityWaiters, idleWaiters>>
              ELSE /\ trainerPending' = IF statePending = NoReq THEN NoReq ELSE trainerPending
                   /\ IF req # NoReq /\ ~swapBusy
                        THEN \* applyPendingPointCloudSwap()
                             /\ swapBusy' = TRUE
                             /\ statePending' = NoReq
                             /\ trainingBusy' = TRUE
                             /\ swapNext' = req
                             /\ waitForIdleAt("swap", inFlight', mq)
                             /\ lastEvent' = "other"
                             /\ UNCHANGED <<stepVars, waited, capacityWaiters,
                                            iteration, optimizerIteration>>
                        ELSE IF canStartStep(req)
                        THEN /\ trainingBusy' = TRUE
                             /\ step(inFlight')
                             /\ lastEvent' = "stepStarted"
                             /\ UNCHANGED <<swapBusy, statePending, swapNext, outTotal,
                                            maxOutPoints, outAlloc, idleWaiters>>
                        ELSE /\ statePending' = req
                             /\ lastEvent' = "other"
                             /\ UNCHANGED <<trainingBusy, swapBusy, swapNext, stepVars,
                                            mq, pc, waited, capacityWaiters, idleWaiters,
                                            iteration, optimizerIteration>>
                   /\ UNCHANGED <<loopAlive, isTraining, pointCloudN, optimizerN,
                                  optimizerBufN, hasCameras, hasImages, cfgVars>>
    /\ UNCHANGED <<maxInFlight, failedSinceStart, dpVars, scanVars, passVars>>

\* trainStartBtn: syncTrainerConfig(); trainer.start()
Start ==
    /\ mq = <<>>
    /\ pointCloudN # 0 /\ hasCameras
    /\ isTraining' = TRUE
    /\ iteration' = 0
    /\ failedSinceStart' = FALSE
    /\ lastEvent' = "other"
    /\ UNCHANGED <<gateVars, loopVars, waited, pointCloudN, optimizerN, optimizerBufN,
                   trainerPending, hasCameras, hasImages, optimizerIteration, cfgVars,
                   mainVars, stepVars, dpVars, scanVars, passVars>>

\* trainStopBtn: trainer.stop()
Stop ==
    /\ mq = <<>>
    /\ isTraining
    /\ isTraining' = FALSE
    /\ lastEvent' = "other"
    /\ UNCHANGED <<gateVars, loopVars, waited, iteration, pointCloudN, optimizerN,
                   optimizerBufN, trainerPending, hasCameras, hasImages,
                   optimizerIteration, cfgVars, mainVars, stepVars, failedSinceStart,
                   dpVars, scanVars, passVars>>

\* plyInput 'change', after `await load(file)`: viewer.setPointCloud and
\* trainer.setPointCloud, which applies the swap on the spot.
LoadPointCloud ==
    /\ mq = <<>>
    /\ \E n \in 1..MaxPoints : applyPointCloudSwap([n |-> n, optN |-> 0, it |-> 0])
    /\ lastEvent' = IF pointCloudN # 0 THEN "loadApplied" ELSE "loadFirst"
    /\ UNCHANGED <<gateVars, loopVars, waited, isTraining, iteration, trainerPending,
                   hasCameras, hasImages, cfgVars, mainVars, stepVars, failedSinceStart,
                   dpVars, scanVars, passVars>>

\* the camera file and the image folder: trainer.setDataset(presets, images)
LoadCameras ==
    /\ mq = <<>>
    /\ ~hasCameras
    /\ hasCameras' = TRUE
    /\ lastEvent' = "other"
    /\ UNCHANGED <<gateVars, loopVars, waited, isTraining, iteration, pointCloudN,
                   optimizerN, optimizerBufN, trainerPending, hasImages,
                   optimizerIteration, cfgVars, mainVars, stepVars, failedSinceStart,
                   dpVars, scanVars, passVars>>

LoadImages ==
    /\ mq = <<>>
    /\ ~hasImages
    /\ hasImages' = TRUE
    /\ lastEvent' = "other"
    /\ UNCHANGED <<gateVars, loopVars, waited, isTraining, iteration, pointCloudN,
                   optimizerN, optimizerBufN, trainerPending, hasCameras,
                   optimizerIteration, cfgVars, mainVars, stepVars, failedSinceStart,
                   dpVars, scanVars, passVars>>

\* ------------------------------------------- continuations of trainer.step()

\* gate.submit continues after waitForCapacity: queue.submit, which may
\* throw; the exception rejects submit(), then step(), whose only reaction
\* is the finally callback of the render loop.
AppSubmitCont ==
    /\ mq # <<>> /\ Head(mq) = Task("submitCont", "step")
    /\ \E throws \in BOOLEAN :
         /\ submitInternal("step", throws)
         /\ IF throws
              THEN /\ pc' = [pc EXCEPT !["step"] = "idle"]
                   /\ waited' = [waited EXCEPT !["step"] = "free"]
                   /\ stepPhase' = IF stepPhase = "train" THEN "rejected"
                                                         ELSE "rejectedInDensify"
                   /\ clearStepLocals
                   /\ failedSinceStart' = TRUE
                   /\ mq' = Append(Tail(mq), Task("stepSettled", "step"))
                   /\ lastEvent' = "submitThrew"
              ELSE /\ pc' = [pc EXCEPT !["step"] = "doneWait"]
                   /\ mq' = Tail(mq)
                   /\ lastEvent' = "submitted"
                   /\ UNCHANGED <<waited, stepVars, failedSinceStart>>
    /\ UNCHANGED <<maxInFlight, capacityWaiters, idleWaiters, trainerVars, mainVars, dpVars, scanVars, passVars>>

\* after the training submission: iteration++, then either the tail of
\* step() or runDensifyPruneMultiView() up to its first await.
TrainDone ==
    /\ mq # <<>> /\ Head(mq) = Task("doneCont", "step")
    /\ stepPhase = "train"
    /\ iteration' = iteration + 1
    /\ IF ~shouldDensify
         THEN /\ isTraining' = IF iteration + 1 >= maxIterations THEN FALSE ELSE isTraining
              /\ stepPhase' = "resolved"
              /\ clearStepLocals
              /\ mq' = Append(Tail(mq), Task("stepSettled", "step"))
              /\ pc' = [pc EXCEPT !["step"] = "idle"]
              /\ waited' = [waited EXCEPT !["step"] = "free"]
              /\ UNCHANGED capacityWaiters
         ELSE /\ UNCHANGED <<isTraining, shouldDensify, outAlloc>>
              /\ \E usedViews \in {0, 1} :
                   IF pointCloudN = 0 \/ ~hasCameras \/ ~hasImages \/ usedViews = 0
                     THEN /\ stepPhase' = "tail"
                          /\ mq' = Append(Tail(mq), Task("stepTail", "step"))
                          /\ pc' = [pc EXCEPT !["step"] = "idle"]
                          /\ waited' = [waited EXCEPT !["step"] = "free"]
                          /\ UNCHANGED <<capacityWaiters, outTotal, maxOutPoints>>
                     ELSE \E counts \in [1..pointCloudN -> DecideCounts] :
                          /\ maxOutPoints' = computeMaxOutPoints(pointCloudN,
                                               pointCloudN * BytesPerGaussian,
                                               pointCloudN * BytesPerSh,
                                               AppMaxBufferBytes, MaxNewPoints)
                          /\ outTotal' = prepareTotal(counts, maxOutPoints')
                          /\ stepPhase' = "prep"
                          /\ submitAt("step", inFlight, Tail(mq))
    /\ lastEvent' = "other"
    /\ UNCHANGED <<maxInFlight, inFlight, idleWaiters, works, pointCloudN, optimizerN,
                   optimizerBufN, trainerPending, hasCameras, hasImages,
                   optimizerIteration, cfgVars, mainVars, failedSinceStart, dpVars,
                   scanVars, passVars>>

\* after the prepare submission: `await densifyTotalReadback.mapAsync(READ)`
PrepDone ==
    /\ mq # <<>> /\ Head(mq) = Task("doneCont", "step")
    /\ stepPhase = "prep"
    /\ stepPhase' = "map"
    /\ mq' = Tail(mq)
    /\ pc' = [pc EXCEPT !["step"] = "idle"]
    /\ waited' = [waited EXCEPT !["step"] = "free"]
    /\ lastEvent' = "other"
    /\ UNCHANGED <<gateVars, works, trainerVars, mainVars, shouldDensify, outTotal,
                   maxOutPoints, outAlloc, failedSinceStart, dpVars, scanVars, passVars>>

\* the mapping resolves (a task of its own): the host reads out_total,
\* derives outN and either returns or allocates and submits the scatter.
MapResolved ==
    /\ mq = <<>>
    /\ stepPhase = "map"
    /\ LET inN == pointCloudN
           outN == Min(outTotal, maxOutPoints)
       IN IF outN = 0 \/ outN = inN
            THEN /\ stepPhase' = "tail"
                 /\ mq' = <<Task("stepTail", "step")>>
                 /\ UNCHANGED <<outAlloc, pc, waited, capacityWaiters>>
            ELSE /\ outAlloc' = [n |-> allocatePointCloudLike(outN),
                                 optN |-> allocateOptimizerStateBuffers(outN),
                                 it |-> 0]
                 /\ stepPhase' = "scatter"
                 /\ submitAt("step", inFlight, mq)
    /\ lastEvent' = "other"
    /\ UNCHANGED <<maxInFlight, inFlight, idleWaiters, works, trainerVars, mainVars,
                   shouldDensify, outTotal, maxOutPoints, failedSinceStart, dpVars, scanVars, passVars>>

\* after the scatter submission: requestPointCloudSwap(outPointCloud,
\* { buffers: outOptimizerState }) and return
ScatterDone ==
    /\ mq # <<>> /\ Head(mq) = Task("doneCont", "step")
    /\ stepPhase = "scatter"
    \* { iteration: this.optimizer.getIteration(), buffers: outOptimizerState }
    /\ trainerPending' = [outAlloc EXCEPT !.it = optimizerIteration]
    /\ stepPhase' = "tail"
    /\ mq' = Append(Tail(mq), Task("stepTail", "step"))
    /\ pc' = [pc EXCEPT !["step"] = "idle"]
    /\ waited' = [waited EXCEPT !["step"] = "free"]
    /\ lastEvent' = "other"
    /\ UNCHANGED <<gateVars, works, isTraining, iteration, pointCloudN, optimizerN,
                   optimizerBufN, hasCameras, hasImages, optimizerIteration, cfgVars,
                   mainVars, shouldDensify, outTotal, maxOutPoints, outAlloc,
                   failedSinceStart, dpVars, scanVars, passVars>>

\* step() resumes after `await this.runDensifyPruneMultiView()`:
\* if (iteration >= maxIterations) stop(); and returns
StepTail ==
    /\ mq # <<>> /\ Head(mq) = Task("stepTail", "step")
    /\ isTraining' = IF iteration >= maxIterations THEN FALSE ELSE isTraining
    /\ stepPhase' = "resolved"
    /\ clearStepLocals
    /\ mq' = Append(Tail(mq), Task("stepSettled", "step"))
    /\ lastEvent' = "other"
    /\ UNCHANGED <<gateVars, works, pc, waited, iteration, pointCloudN, optimizerN,
                   optimizerBufN, trainerPending, hasCameras, hasImages,
                   optimizerIteration, cfgVars, mainVars, failedSinceStart, dpVars,
                   scanVars, passVars>>

\* trainer.step().finally(() => { state.trainingBusy = false; })
StepSettled ==
    /\ mq # <<>> /\ Head(mq) = Task("stepSettled", "step")
    /\ trainingBusy' = FALSE
    /\ stepPhase' = "none"
    /\ mq' = Tail(mq)
    /\ lastEvent' = "other"
    /\ UNCHANGED <<gateVars, works, pc, waited, trainerVars, swapBusy, statePending,
                   swapNext, loopAlive, shouldDensify, outTotal, maxOutPoints,
                   outAlloc, failedSinceStart, dpVars, scanVars, passVars>>

\* applyPendingPointCloudSwap resumes after `await waitForIdle()`:
\* viewer.setPointCloud, trainer.applyPointCloudSwap(next), and the finally
\* block.  When one of the viewer calls throws, the catch block logs the
\* error, trainer.applyPointCloudSwap is not reached and the finally block
\* still runs; the request was already taken out of the state.
AppIdleCont ==
    /\ mq # <<>> /\ Head(mq) = Task("idleCont", "swap")
    /\ \E throws \in BOOLEAN :
         IF throws
           THEN /\ lastEvent' = "swapThrew"
                /\ UNCHANGED <<pointCloudN, optimizerN, optimizerBufN,
                               optimizerIteration>>
           ELSE /\ applyPointCloudSwap(swapNext)
                /\ lastEvent' = "swapApplied"
    /\ swapNext' = NoReq
    /\ swapBusy' = FALSE
    /\ trainingBusy' = FALSE
    /\ pc' = [pc EXCEPT !["swap"] = "idle"]
    /\ mq' = Tail(mq)
    /\ UNCHANGED <<gateVars, works, waited, isTraining, iteration, trainerPending,
                   hasCameras, hasImages, cfgVars, statePending, loopAlive, stepVars,
                   failedSinceStart, dpVars, scanVars, passVars>>

AppInit ==
    /\ maxInFlight = AppMaxInFlight
    /\ inFlight = 0
    /\ capacityWaiters = <<>>
    /\ idleWaiters = <<>>
    /\ works = <<>>
    /\ mq = <<>>
    /\ pc = [c \in AppProcs |-> "idle"]
    /\ waited = [c \in AppProcs |-> "free"]
    /\ lastEvent = "other"
    /\ TrainerInit
    /\ SyncedConfig
    /\ MainInit
    /\ DensifyOff
    /\ PassesOff

AppNext ==
    \/ Frame
    \/ Start
    \/ Stop
    \/ LoadPointCloud
    \/ LoadCameras
    \/ LoadImages
    \/ GpuWorkDone
    \/ RunFinally
    \/ RunCapResume
    \/ RunIdleResume
    \/ RunDoneResolve
    \/ AppSubmitCont
    \/ TrainDone
    \/ PrepDone
    \/ MapResolved
    \/ ScatterDone
    \/ StepTail
    \/ StepSettled
    \/ AppIdleCont

SpecApp == AppInit /\ [][AppNext]_vars

\* The event loop runs every queued microtask before the next task, and
\* every task that stays or keeps becoming ready (a completion callback of
\* the GPU queue, the resolution of mapAsync) is eventually run.
Microtasks ==
    \/ RunFinally
    \/ RunCapResume
    \/ RunIdleResume
    \/ RunDoneResolve
    \/ AppSubmitCont
    \/ TrainDone
    \/ PrepDone
    \/ ScatterDone
    \/ StepTail
    \/ StepSettled
    \/ AppIdleCont

SpecAppLive ==
    /\ AppInit
    /\ [][AppNext]_vars
    /\ WF_vars(Microtasks)
    /\ SF_vars(GpuWorkDone)
    /\ SF_vars(MapResolved)

\* The render loop re-arms itself with requestAnimationFrame(loop) as the
\* last statement of every frame, and the browser runs an armed callback
\* once the microtask queue has drained.
SpecRenderLoop == SpecAppLive /\ SF_vars(Frame)

\* ------------------------------------------ one densify/prune cycle (GPU)

DensifyBufferBytes ==
    {0, BytesPerSh, 2 * BytesPerSh, DensifyMaxPoints * BytesPerSh,
     2 * DensifyMaxPoints * BytesPerSh}

DensifyConfigs ==
    [maxBufferBytes : DensifyBufferBytes,
     maxNewPointsPerStep : {0, 1, MaxNewPoints},
     sh : BOOLEAN]

DensifyInputs ==
    UNION {[1..n -> GaussianKinds] : n \in 1..DensifyMaxPoints}

dpN == Len(dpGaussians)

\* maxOutPoints of the cycle: computeMaxOutPoints(inputs.pointCloud)
dpMaxOut ==
    computeMaxOutPoints(dpN, dpN * BytesPerGaussian,
                        IF dpConfig.sh THEN dpN * BytesPerSh ELSE 0,
                        dpConfig.maxBufferBytes, dpConfig.maxNewPointsPerStep)

\* A parameter value, as the source Gaussian it was read from and what the
\* shader did to it on the way; a moment is the index of the source whose
\* moment it is, or 0 for zeros.
Param(src_idx, op) == [src |-> src_idx, op |-> op]

\* faulty variant: no verbatim path, every Gaussian is unpacked and packed
\* again
copy_point_always_repacks(src_idx, variant, action) ==
    LET opacity_clamped == src_idx \in dpOpacityHigh
    IN [pos |-> Param(src_idx,
                      IF action = CLONE /\ variant = 1 THEN "jitter"
                      ELSE IF action = SPLIT
                             THEN (IF variant = 1 THEN "split-" ELSE "split+")
                      ELSE "repack"),
        opacity |-> Param(src_idx, IF opacity_clamped THEN "clamp" ELSE "repack"),
        rot |-> Param(src_idx, "copy"),
        scale |-> Param(src_idx, IF action = SPLIT THEN "shrink" ELSE "copy"),
        sh |-> Param(src_idx, "copy")]

\* copy_point(dst_idx, src_idx, variant, action): the packed Gaussian and
\* the SH words stored at the destination, each field as the source it was
\* read from and what happened to its bits. "copy" are the source's words;
\* "repack" went through unpack2x16float and pack2x16float; the opacity
\* logit is replaced by OPACITY_MAX_RAW when sigmoid(logit) > OPACITY_MAX.
copy_point(src_idx, variant, action) ==
    LET opacity_clamped == src_idx \in dpOpacityHigh
        needs_transform == action = SPLIT \/ (action = CLONE /\ variant = 1)
    IN IF ~needs_transform /\ ~opacity_clamped
         THEN [pos |-> Param(src_idx, "copy"),
               opacity |-> Param(src_idx, "copy"),
               rot |-> Param(src_idx, "copy"),
               scale |-> Param(src_idx, "copy"),
               sh |-> Param(src_idx, "copy")]
         ELSE [pos |-> Param(src_idx,
                             IF action = CLONE /\ variant = 1 THEN "jitter"
                             ELSE IF action = SPLIT
                                    THEN (IF variant = 1 THEN "split-" ELSE "split+")
                             ELSE "repack"),
               opacity |-> Param(src_idx, IF opacity_clamped THEN "clamp" ELSE "repack"),
               rot |-> Param(src_idx, "copy"),
               scale |-> Param(src_idx, IF action = SPLIT THEN "shrink" ELSE "copy"),
               sh |-> Param(src_idx, "copy")]

\* faulty variant: the second copy is stored at the offset of the first
scatter_gaussians_main_one_slot(idx, out_points) ==
    LET c == out_counts[idx]
        off == out_offsets[idx]
        action == out_actions[idx]
    IN IF c = 0 \/ off >= out_points THEN {}
       ELSE {[slot |-> off, src |-> idx, copy |-> 0,
              val |-> copy_point(idx, 0, action)]}
            \cup (IF c = 2
                    THEN {[slot |-> off, src |-> idx, copy |-> 1,
                           val |-> copy_point(idx, 1, action)]}
                    ELSE {})

\* scatter_gaussians_main for input idx (1-based here; slots are 0-based):
\* the output slots it copies to, each with the input it copies from and
\* what copy_point stored there
scatter_gaussians_main(idx, out_points) ==
    LET c == out_counts[idx]
        off == out_offsets[idx]
        action == out_actions[idx]
    IN IF c = 0 \/ off >= out_points THEN {}
       ELSE {[slot |-> off, src |-> idx, copy |-> 0,
              val |-> copy_point(idx, 0, action)]}
            \cup (IF c = 2 /\ off + 1 < out_points
                    THEN {[slot |-> off + 1, src |-> idx, copy |-> 1,
                           val |-> copy_point(idx, 1, action)]}
                    ELSE {})

\* --------------------------------- scatter of the optimizer state (GPU)

\* the five optimizer buffers encodeScatter scatters, each {param, m, v}
OptBuffers == {"pos", "rot", "scale", "opacity", "sh"}

\* densify-prune-scatter-opt-pos: write_slot(dst, src, variant, action)
write_slot_pos(src_idx, variant, action) ==
    LET is_new == variant = 1 \/ action = SPLIT
        reset == dpReset /\ is_new
    IN [param |-> IF action = CLONE /\ variant = 1 THEN Param(src_idx, "jitter")
                  ELSE IF action = SPLIT
                         THEN Param(src_idx, IF variant = 1 THEN "split-" ELSE "split+")
                  ELSE Param(src_idx, "copy"),
        m |-> IF reset THEN 0 ELSE src_idx,
        v |-> IF reset THEN 0 ELSE src_idx]

\* densify-prune-scatter-opt-scale: write_slot(dst, src, variant, action)
write_slot_scale(src_idx, variant, action) ==
    LET is_new == variant = 1 \/ action = SPLIT
        reset == dpReset /\ is_new
    IN [param |-> IF action = SPLIT THEN Param(src_idx, "shrink")
                  ELSE Param(src_idx, "copy"),
        m |-> IF reset THEN 0 ELSE src_idx,
        v |-> IF reset THEN 0 ELSE src_idx]

\* densify-prune-scatter-opt-vec4 (rotation) and -opt-sh:
\* write_slot(dst, src, is_new)
write_slot_vec4(src_idx, is_new) ==
    LET reset == dpReset /\ is_new
    IN [param |-> Param(src_idx, "copy"),
        m |-> IF reset THEN 0 ELSE src_idx,
        v |-> IF reset THEN 0 ELSE src_idx]

write_slot_sh(src_idx, is_new) ==
    LET reset == dpReset /\ is_new
    IN [param |-> Param(src_idx, "copy"),
        m |-> IF reset THEN 0 ELSE src_idx,
        v |-> IF reset THEN 0 ELSE src_idx]

\* densify-prune-scatter-opt-float (opacity): write_slot(dst, src, is_new)
\* clamps the logit to OPACITY_MAX_RAW and zeroes (m, v); is_new and
\* info.reset_new_state are not read.
write_slot_float(src_idx, is_new) ==
    [param |-> IF src_idx \in dpOpacityHigh THEN Param(src_idx, "clamp")
               ELSE Param(src_idx, "copy"),
     m |-> 0,
     v |-> 0]

write_slot(buf, src_idx, variant, action) ==
    CASE buf = "pos" -> write_slot_pos(src_idx, variant, action)
      [] buf = "scale" -> write_slot_scale(src_idx, variant, action)
      [] buf = "rot" -> write_slot_vec4(src_idx, variant = 1 \/ action = SPLIT)
      [] buf = "sh" -> write_slot_sh(src_idx, variant = 1 \/ action = SPLIT)
      [] buf = "opacity" -> write_slot_float(src_idx, variant = 1 \/ action = SPLIT)

\* scatter_opt_*_main for input idx: the writes of one optimizer pass
scatter_opt_main(buf, idx, out_points) ==
    LET action == out_actions[idx]
        c == out_counts[idx]
        off == out_offsets[idx]
        W(slot, variant) ==
            [buf |-> buf, slot |-> slot, src |-> idx, variant |-> variant,
             val |-> write_slot(buf, idx, variant, action)]
    IN IF c = 0 \/ off >= out_points THEN {}
       ELSE {W(off, 0)}
            \cup (IF c = 2 /\ off + 1 < out_points THEN {W(off + 1, 1)} ELSE {})

dpRest == <<gateVars, loopVars, obsVars, appVars, dpReset, dpOpacityHigh, scanVars, passVars>>

\* encodeDecision: decide_main over every Gaussian
DpDecide ==
    /\ dpStage = "decide"
    /\ out_counts' = [i \in 1..dpN |-> decide_count(dpGaussians[i])]
    /\ out_actions' = [i \in 1..dpN |-> decide_action(dpGaussians[i])]
    /\ dpStage' = "scan1"
    /\ UNCHANGED <<dpGaussians, dpConfig, out_offsets, out_total, dpOutN, dpWritten, dpOptWritten,
                   dpSceneN, dpRest>>

\* encodePrefixSum: exclusive scan of out_counts into the scanner's output
\* buffer, before and after the cap
DpScan ==
    /\ dpStage \in {"scan1", "scan2"}
    /\ out_offsets' = ExclusiveScan(out_counts)
    /\ dpStage' = IF dpStage = "scan1" THEN "cap" ELSE "total"
    /\ UNCHANGED <<dpGaussians, dpConfig, out_counts, out_actions, out_total, dpOutN,
                   dpWritten, dpOptWritten, dpSceneN, dpRest>>

\* encodeCapToMax: cap_main against the offsets of the first scan
DpCap ==
    /\ dpStage = "cap"
    /\ out_counts' = cap_main(out_offsets, out_counts, dpMaxOut)
    /\ out_actions' = [i \in 1..dpN |->
                         cap_action(out_offsets[i], out_counts[i], out_actions[i], dpMaxOut)]
    /\ dpStage' = "scan2"
    /\ UNCHANGED <<dpGaussians, dpConfig, out_offsets, out_total, dpOutN, dpWritten, dpOptWritten,
                   dpSceneN, dpRest>>

\* encodeTotalOut: total_main
DpTotal ==
    /\ dpStage = "total"
    /\ out_total' = total_main(dpN, out_offsets, out_counts)
    /\ dpStage' = "readback"
    /\ UNCHANGED <<dpGaussians, dpConfig, out_counts, out_actions, out_offsets, dpOutN,
                   dpWritten, dpOptWritten, dpSceneN, dpRest>>

\* runDensifyPruneMultiView after mapAsync: outN = min(outTotal,
\* maxOutPoints); nothing more happens when outN is 0 or the input size.
DpReadback ==
    /\ dpStage = "readback"
    /\ LET outN == Min(out_total, dpMaxOut)
       IN IF outN = 0 \/ outN = dpN
            THEN dpStage' = "done" /\ UNCHANGED dpOutN
            ELSE dpStage' = "scatter" /\ dpOutN' = outN
    /\ UNCHANGED <<dpGaussians, dpConfig, out_counts, out_actions, out_offsets,
                   out_total, dpWritten, dpOptWritten, dpSceneN, dpRest>>

\* encodeScatter into buffers allocated for outN Gaussians
DpScatter ==
    /\ dpStage = "scatter"
    /\ dpWritten' = UNION {scatter_gaussians_main(idx, Max(1, dpOutN)) : idx \in 1..Max(1, dpN)}
    /\ dpOptWritten' = UNION {scatter_opt_main(buf, idx, Max(1, dpOutN)) :
                                buf \in OptBuffers, idx \in 1..Max(1, dpN)}
    /\ dpStage' = "swap"
    /\ UNCHANGED <<dpGaussians, dpConfig, out_counts, out_actions, out_offsets,
                   out_total, dpOutN, dpSceneN, dpRest>>

\* the requested swap is applied: the scene is the scattered point cloud
DpSwap ==
    /\ dpStage = "swap"
    /\ dpSceneN' = allocatePointCloudLike(dpOutN)
    /\ dpStage' = "done"
    /\ UNCHANGED <<dpGaussians, dpConfig, out_counts, out_actions, out_offsets,
                   out_total, dpOutN, dpWritten, dpOptWritten, dpRest>>

\* ensureSize(num_points): zeroed out_counts / out_actions, and a scene of
\* any modelled size with any configuration
DensifyInit ==
    /\ maxInFlight = AppMaxInFlight
    /\ inFlight = 0
    /\ capacityWaiters = <<>>
    /\ idleWaiters = <<>>
    /\ works = <<>>
    /\ mq = <<>>
    /\ pc = [c \in AppProcs |-> "idle"]
    /\ waited = [c \in AppProcs |-> "free"]
    /\ lastEvent = "other"
    /\ TrainerInit
    /\ SyncedConfig
    /\ MainInit
    /\ dpStage = "decide"
    /\ dpGaussians \in DensifyInputs
    /\ dpConfig \in DensifyConfigs
    /\ out_counts = [i \in 1..Len(dpGaussians) |-> 0]
    /\ out_actions = [i \in 1..Len(dpGaussians) |-> 0]
    /\ out_offsets = [i \in 1..Len(dpGaussians) |-> 0]
    /\ out_total = 0
    /\ dpOutN = 0
    /\ dpWritten = {}
    /\ dpSceneN = Len(dpGaussians)
    /\ dpReset = TRUE
    /\ dpOpacityHigh = {}
    /\ dpOptWritten = {}
    /\ ScanOff
    /\ PassesOff

DensifyNext ==
    \/ DpDecide
    \/ DpScan
    \/ DpCap
    \/ DpTotal
    \/ DpReadback
    \/ DpScatter
    \/ DpSwap

SpecDensify == DensifyInit /\ [][DensifyNext]_vars

\* ------------------------------ a densify/prune cycle with optimizer state

\* one input per outcome of the decision (the scatter reads the decision
\* only through out_actions and out_counts)
ScatterKinds ==
    {g \in GaussianKinds : (g.low => ~g.hot) /\ (~g.hot => ~g.big)}

ScatterInputs ==
    UNION {[1..n -> ScatterKinds] : n \in 1..DensifyMaxPoints}

ScatterConfigs ==
    [maxBufferBytes : {DensifyMaxPoints * BytesPerSh, 2 * DensifyMaxPoints * BytesPerSh},
     maxNewPointsPerStep : {0, MaxNewPoints},
     sh : {TRUE}]

\* as DensifyInit, with either value of resetNewOptimizerState and any set
\* of kept Gaussians above the opacity clamp
ScatterInit ==
    /\ maxInFlight = AppMaxInFlight
    /\ inFlight = 0
    /\ capacityWaiters = <<>>
    /\ idleWaiters = <<>>
    /\ works = <<>>
    /\ mq = <<>>
    /\ pc = [c \in AppProcs |-> "idle"]
    /\ waited = [c \in AppProcs |-> "free"]
    /\ lastEvent = "other"
    /\ TrainerInit
    /\ SyncedConfig
    /\ MainInit
    /\ dpStage = "decide"
    /\ dpGaussians \in ScatterInputs
    /\ dpConfig \in ScatterConfigs
    /\ out_counts = [i \in 1..Len(dpGaussians) |-> 0]
    /\ out_actions = [i \in 1..Len(dpGaussians) |-> 0]
    /\ out_offsets = [i \in 1..Len(dpGaussians) |-> 0]
    /\ out_total = 0
    /\ dpOutN = 0
    /\ dpWritten = {}
    /\ dpSceneN = Len(dpGaussians)
    /\ dpReset \in BOOLEAN
    /\ dpOpacityHigh \in SUBSET {i \in 1..Len(dpGaussians) : ~dpGaussians[i].low}
    /\ dpOptWritten = {}
    /\ ScanOff
    /\ PassesOff

SpecScatter == ScatterInit /\ [][DensifyNext]_vars

\* ------------------------------------------- training with any schedule

\* the values the sliders of the training panel are moved to
SliderSchedules ==
    [enabled : {TRUE},
     warmupIterations : {1, MaxIterations},
     interval : {1, 2},
     stopIterations : {1, MaxIterations}]

\* the null of getNextDensifyPruneIteration
NoIteration == -1

\* getNextDensifyPruneIteration()
getNextDensifyPruneIteration ==
    LET warmup == schedule.warmupIterations
        interval == Max(1, schedule.interval)
        stop == schedule.stopIterations
        i == iteration
        \* Math.ceil((i + 1 - warmup) / interval), for i >= warmup
        k == (i + 1 - warmup + interval - 1) \div interval
        next == warmup + k * interval
    IN  IF ~schedule.enabled THEN NoIteration
        ELSE IF i >= stop THEN NoIteration
        ELSE IF i < warmup THEN Min(warmup, stop)
        ELSE IF next <= stop THEN next ELSE NoIteration

\* a slider 'input' event: syncTrainerConfig() with the sliders' new values
SyncTrainerConfig ==
    /\ mq = <<>>
    /\ \E sch \in SliderSchedules, maxIters \in {MaxIterations} :
         /\ <<sch, maxIters>> # <<schedule, maxIterations>>
         /\ schedule' = sch
         /\ maxIterations' = maxIters
    /\ lastEvent' = "other"
    /\ UNCHANGED <<gateVars, loopVars, waited, isTraining, iteration, pointCloudN,
                   optimizerN, optimizerBufN, trainerPending, hasCameras, hasImages,
                   optimizerIteration, mainVars, stepVars, failedSinceStart, dpVars,
                   scanVars, passVars>>

TrainInit ==
    /\ maxInFlight = AppMaxInFlight
    /\ inFlight = 0
    /\ capacityWaiters = <<>>
    /\ idleWaiters = <<>>
    /\ works = <<>>
    /\ mq = <<>>
    /\ pc = [c \in AppProcs |-> "idle"]
    /\ waited = [c \in AppProcs |-> "free"]
    /\ lastEvent = "other"
    /\ TrainerInit
    /\ SyncedConfig
    /\ MainInit
    /\ DensifyOff
    /\ PassesOff

TrainNext ==
    \/ AppNext
    \/ SyncTrainerConfig

SpecTrain == TrainInit /\ [][TrainNext]_vars

\* ------------------------------------------------------ the prefix scanner

\* scaled sizes: WORKGROUP_SIZE = 2^WorkgroupSizeLog2 threads per workgroup
\* (256 in the source), BLOCKS_PER_THREAD block sums per thread of phase 2
\* (32 in the source), inputs of every length up to MaxScanLen
WorkgroupSizeLog2 == 1
BLOCKS_PER_THREAD == 1
MaxScanLen == 5

WORKGROUP_SIZE == 2 ^ WorkgroupSizeLog2
ELEMENTS_PER_BLOCK == WORKGROUP_SIZE * 2
MAX_BLOCKS == WORKGROUP_SIZE * BLOCKS_PER_THREAD
MAX_ELEMENTS == MAX_BLOCKS * ELEMENTS_PER_BLOCK

\* a u32 is kept as its two 16-bit halves <<high, low>>
Half == 2 ^ 16
u32(k) == <<k \div Half, k % Half>>

\* a + b on u32: the carry out of the high half is dropped
add_u32(a, b) ==
    LET low == a[2] + b[2]
        high == a[1] + b[1] + (low \div Half)
    IN  <<high % Half, low % Half>>

\* Math.ceil(count / ELEMENTS_PER_BLOCK)
ceil_blocks(count) == (count + ELEMENTS_PER_BLOCK - 1) \div ELEMENTS_PER_BLOCK

ai_idx(offset, lid) == offset * (2 * lid + 1) - 1
bi_idx(offset, lid) == offset * (2 * lid + 2) - 1

\* the threads of the workgroup that are active in a sweep step and own
\* shared_data[i] as their ai_idx / bi_idx
activeAt(d, offset, n) ==
    {lid \in 0..(WORKGROUP_SIZE - 1) : lid < d /\ bi_idx(offset, lid) < 2 * n}

\* one iteration of the up-sweep loop, between two barriers
up_sweep_step(shared_data, d, offset, n) ==
    [i \in DOMAIN shared_data |->
       IF \E lid \in activeAt(d, offset, n) : bi_idx(offset, lid) = i
         THEN LET lid == CHOOSE t \in activeAt(d, offset, n) : bi_idx(offset, t) = i
              IN  add_u32(shared_data[i], shared_data[ai_idx(offset, lid)])
         ELSE shared_data[i]]

RECURSIVE up_sweep(_, _, _, _)
\* for (var d = n; d > 0u; d >>= 1u) { ...; offset <<= 1u; }
up_sweep(shared_data, d, offset, n) ==
    IF d > 0
      THEN up_sweep(up_sweep_step(shared_data, d, offset, n), d \div 2, offset * 2, n)
      ELSE [data |-> shared_data, offset |-> offset]

\* one iteration of the down-sweep loop, between two barriers
down_sweep_step(shared_data, d, offset, n) ==
    [i \in DOMAIN shared_data |->
       IF \E lid \in activeAt(d, offset, n) : ai_idx(offset, lid) = i
         THEN LET lid == CHOOSE t \in activeAt(d, offset, n) : ai_idx(offset, t) = i
              IN  shared_data[bi_idx(offset, lid)]
         ELSE IF \E lid \in activeAt(d, offset, n) : bi_idx(offset, lid) = i
           THEN LET lid == CHOOSE t \in activeAt(d, offset, n) : bi_idx(offset, t) = i
                IN  add_u32(shared_data[i], shared_data[ai_idx(offset, lid)])
           ELSE shared_data[i]]

RECURSIVE down_sweep(_, _, _, _)
\* for (var d = 1u; d < 2u * n; d <<= 1u) { offset >>= 1u; ... }
down_sweep(shared_data, d, offset, n) ==
    IF d < 2 * n
      THEN down_sweep(down_sweep_step(shared_data, d, offset \div 2, n), d * 2,
                      offset \div 2, n)
      ELSE shared_data

\* blelloch_scan over shared_data[0 .. 2n-1]
blelloch_scan(shared_data, n) ==
    LET up == up_sweep(shared_data, n, 1, n)
        cleared == [up.data EXCEPT ![2 * n - 1] = u32(0)]
    IN  down_sweep(cleared, 1, up.offset, n)

RECURSIVE block_total(_, _, _, _)
\* thread 0 of local_scan: the sum of the block's elements below info.count
block_total(shared_data, block_start, count, i) ==
    IF i = 0
      THEN u32(0)
      ELSE LET rest == block_total(shared_data, block_start, count, i - 1)
           IN  IF block_start + (i - 1) < count
                 THEN add_u32(rest, shared_data[i - 1])
                 ELSE rest

\* what workgroup block_id of local_scan loads into shared_data
local_load(input, count, block_id) ==
    [i \in 0..(ELEMENTS_PER_BLOCK - 1) |->
       IF block_id * ELEMENTS_PER_BLOCK + i < count
         THEN input[block_id * ELEMENTS_PER_BLOCK + i]
         ELSE u32(0)]

\* phase 1, all workgroups: the output buffer and block_sums afterwards
local_scan(input, output, sums, count, num_workgroups) ==
    LET scanned(b) == blelloch_scan(local_load(input, count, b), WORKGROUP_SIZE)
        dispatched(g) == g \div ELEMENTS_PER_BLOCK < num_workgroups
    IN  [output |->
           [g \in DOMAIN output |->
              IF dispatched(g) /\ g < count
                THEN scanned(g \div ELEMENTS_PER_BLOCK)[g % ELEMENTS_PER_BLOCK]
                ELSE output[g]],
         block_sums |->
           [b \in DOMAIN sums |->
              IF b < num_workgroups
                THEN block_total(local_load(input, count, b),
                                 b * ELEMENTS_PER_BLOCK, count, ELEMENTS_PER_BLOCK)
                ELSE sums[b]]]

RECURSIVE block_prefix(_, _)
\* thread 0 of scan_blocks: sum after i rounds of its loop
block_prefix(sums, i) ==
    IF i = 0 THEN u32(0) ELSE add_u32(block_prefix(sums, i - 1), sums[i - 1])

\* faulty variant: an inclusive scan of the block sums
scan_blocks_inclusive(sums, num_blocks) ==
    [b \in DOMAIN sums |->
       IF b < num_blocks THEN block_prefix(sums, b + 1) ELSE sums[b]]

\* phase 2: block_sums after the single workgroup's load, scan and store
scan_blocks(sums, num_blocks) ==
    [b \in DOMAIN sums |->
       IF b < num_blocks THEN block_prefix(sums, b) ELSE sums[b]]

\* phase 3, all workgroups: the output buffer afterwards
add_offsets(output, sums, count, num_workgroups) ==
    [g \in DOMAIN output |->
       IF g \div ELEMENTS_PER_BLOCK < num_workgroups /\ g < count
         THEN add_u32(output[g], sums[g \div ELEMENTS_PER_BLOCK])
         ELSE output[g]]

\* the capacities a scanner is requested with
ScannerSizes ==
    {ELEMENTS_PER_BLOCK - 1, ELEMENTS_PER_BLOCK + 1, MAX_ELEMENTS,
     MAX_ELEMENTS + 1, 2 * MAX_ELEMENTS}

\* 0, 1 and 2^32 - 1
ScanValues == {u32(0), u32(1), <<Half - 1, Half - 1>>}

\* the worked example, followed by one more element, and three times over
ScanExample == [i \in 0..7 |-> u32(<<3, 0, 4, 1, 5, 9, 2, 6>>[i + 1])]
ScanExampleScan == [i \in 0..7 |-> u32(<<0, 3, 3, 7, 8, 13, 22, 24>>[i + 1])]
ScanExamples ==
    {ScanExample,
     [i \in 0..8 |-> IF i < 8 THEN ScanExample[i] ELSE u32(7)],
     [i \in 0..23 |-> ScanExample[i % 8]]}

ScanInputs ==
    {a \in UNION {[0..(n - 1) -> ScanValues] : n \in 0..MaxScanLen} \cup ScanExamples :
       Cardinality(DOMAIN a) <= MAX_ELEMENTS}

scanRest == <<gateVars, loopVars, obsVars, appVars, dpVars, passVars>>

\* get_prefix_scanner(maxElements, device): a scanner of any requested
\* capacity, with zeroed buffers
GetPrefixScanner(maxElements) ==
    /\ scanStage = "none"
    /\ scanStage' = "created"
    /\ scanMax' = maxElements
    /\ scanInput' = [i \in 0..(maxElements - 1) |-> u32(0)]
    /\ scanOutput' = [i \in 0..(maxElements - 1) |-> u32(0)]
    /\ block_sums' = [b \in 0..(Max(ceil_blocks(maxElements), 4) - 1) |-> u32(0)]
    /\ scanGroups' = 1
    /\ UNCHANGED <<scanCount, scanRest>>

\* queue.writeBuffer(scanner.input_buffer, 0, inputData) and
\* scanner.set_count(count) for an input that fits the scanner; counts above
\* MAX_ELEMENTS, where scan_blocks would index past block_shared, are not
\* drawn
SetCount(a) ==
    /\ scanStage = "created"
    /\ Cardinality(DOMAIN a) <= scanMax
    /\ scanStage' = "counted"
    /\ scanInput' = [i \in DOMAIN scanInput |-> IF i \in DOMAIN a THEN a[i] ELSE scanInput[i]]
    /\ scanCount' = Cardinality(DOMAIN a)
    /\ scanGroups' = ceil_blocks(Cardinality(DOMAIN a))
    /\ UNCHANGED <<scanMax, scanOutput, block_sums, scanRest>>

\* scan(encoder), first pass: dispatchWorkgroups(currentNumWorkgroups) of
\* local_scan
LocalScanPass ==
    /\ scanStage = "counted"
    /\ LET r == local_scan(scanInput, scanOutput, block_sums, scanCount, scanGroups)
       IN  /\ scanOutput' = r.output
           /\ block_sums' = r.block_sums
    /\ scanStage' = IF scanGroups > 1 THEN "local" ELSE "done"
    /\ UNCHANGED <<scanMax, scanInput, scanCount, scanGroups, scanRest>>

\* second pass, only if currentNumWorkgroups > 1
ScanBlocksPass ==
    /\ scanStage = "local"
    /\ block_sums' = scan_blocks(block_sums, scanGroups)
    /\ scanStage' = "blocks"
    /\ UNCHANGED <<scanMax, scanInput, scanCount, scanGroups, scanOutput, scanRest>>

\* third pass, only if currentNumWorkgroups > 1
AddOffsetsPass ==
    /\ scanStage = "blocks"
    /\ scanOutput' = add_offsets(scanOutput, block_sums, scanCount, scanGroups)
    /\ scanStage' = "done"
    /\ UNCHANGED <<scanMax, scanInput, scanCount, scanGroups, block_sums, scanRest>>

ScanInit ==
    /\ maxInFlight = AppMaxInFlight
    /\ inFlight = 0
    /\ capacityWaiters = <<>>
    /\ idleWaiters = <<>>
    /\ works = <<>>
    /\ mq = <<>>
    /\ pc = [c \in AppProcs |-> "idle"]
    /\ waited = [c \in AppProcs |-> "free"]
    /\ lastEvent = "other"
    /\ TrainerInit
    /\ SyncedConfig
    /\ MainInit
    /\ DensifyOff
    /\ PassesOff

ScanNext ==
    \/ \E maxElements \in ScannerSizes : GetPrefixScanner(maxElements)
    \/ \E a \in ScanInputs : SetCount(a)
    \/ LocalScanPass
    \/ ScanBlocksPass
    \/ AddOffsetsPass

SpecScan == ScanInit /\ [][ScanNext]_vars

\* --------------------------------------- the decide pass on numeric inputs

DecideMaxPoints == 1

\* sigmoid(x) = 1 / (1 + exp(-x)), in thousandths, on the modelled logits
sigmoid(x) ==
    CASE x = -2 -> 119
      [] x = -1 -> 269
      [] x = 0 -> 500
      [] x = 1 -> 731
      [] x = 2 -> 881

\* exp(x), in thousandths, on the modelled log-scales
exp(x) ==
    CASE x = -1 -> 368
      [] x = 0 -> 1000
      [] x = 1 -> 2718

\* A packed Gaussian as decide_main reads it: the opacity logit
\* (pos_opacity[1], high half), the three log-scales (scale[0], low half of
\* scale[1]) and its entry of metric_counts, which the metrics pass
\* allocates with one entry per Gaussian.
DecideGaussians ==
    [opacity_raw : {-1, 0, 1},
     log_scale : [1..3 -> {0, 1}],
     metric_count : {0, 1, 2}]

\* DecideConfig as encodeDecision writes it: clone_threshold_count is a
\* u32, prune_opacity and split_scale_threshold f32 (thousandths here)
DecideThresholds ==
    [prune_opacity : {0, 500, 731},
     clone_threshold_count : {0, 1, 2},
     split_scale_threshold : {1000, 2718}]

\* faulty variant: a Gaussian exactly at the prune threshold is pruned
decide_tests_inclusive(g, cfg) ==
    LET opacity == sigmoid(g.opacity_raw)
        scale3 == [k \in 1..3 |-> exp(g.log_scale[k])]
        max_scale == Max(scale3[1], Max(scale3[2], scale3[3]))
    IN [low |-> opacity <= cfg.prune_opacity,
        hot |-> g.metric_count >= cfg.clone_threshold_count,
        big |-> max_scale >= cfg.split_scale_threshold]

\* the three tests of decide_main
decide_tests(g, cfg) ==
    LET opacity == sigmoid(g.opacity_raw)
        scale3 == [k \in 1..3 |-> exp(g.log_scale[k])]
        max_scale == Max(scale3[1], Max(scale3[2], scale3[3]))
    IN [low |-> opacity < cfg.prune_opacity,
        hot |-> g.metric_count >= cfg.clone_threshold_count,
        big |-> max_scale >= cfg.split_scale_threshold]

\* decide_main for one Gaussian: what it stores to out_actions and out_counts
decide_main(g, cfg) ==
    [action |-> decide_action(decide_tests(g, cfg)),
     count |-> decide_count(decide_tests(g, cfg))]

\* encodeDecision on numeric Gaussians
DecideMain ==
    /\ dpStage = "decide"
    /\ out_counts' = [i \in 1..dpN |-> decide_main(dpGaussians[i], dpConfig.decide).count]
    /\ out_actions' = [i \in 1..dpN |-> decide_main(dpGaussians[i], dpConfig.decide).action]
    /\ dpStage' = "scan1"
    /\ UNCHANGED <<dpGaussians, dpConfig, out_offsets, out_total, dpOutN, dpWritten, dpOptWritten,
                   dpSceneN, dpRest>>

\* a cycle whose buffers leave room for every clone, with any thresholds
DecideConfigs ==
    [maxBufferBytes : {2 * DensifyMaxPoints * BytesPerSh},
     maxNewPointsPerStep : {MaxNewPoints},
     sh : {FALSE},
     decide : DecideThresholds]

DecideInit ==
    /\ maxInFlight = AppMaxInFlight
    /\ inFlight = 0
    /\ capacityWaiters = <<>>
    /\ idleWaiters = <<>>
    /\ works = <<>>
    /\ mq = <<>>
    /\ pc = [c \in AppProcs |-> "idle"]
    /\ waited = [c \in AppProcs |-> "free"]
    /\ lastEvent = "other"
    /\ TrainerInit
    /\ SyncedConfig
    /\ MainInit
    /\ dpStage = "decide"
    /\ dpGaussians \in UNION {[1..n -> DecideGaussians] : n \in 1..DecideMaxPoints}
    /\ dpConfig \in DecideConfigs
    /\ out_counts = [i \in 1..Len(dpGaussians) |-> 0]
    /\ out_actions = [i \in 1..Len(dpGaussians) |-> 0]
    /\ out_offsets = [i \in 1..Len(dpGaussians) |-> 0]
    /\ out_total = 0
    /\ dpOutN = 0
    /\ dpWritten = {}
    /\ dpSceneN = Len(dpGaussians)
    /\ dpReset = TRUE
    /\ dpOpacityHigh = {}
    /\ dpOptWritten = {}
    /\ ScanOff
    /\ PassesOff

DecideNext ==
    \/ DecideMain
    \/ DpScan
    \/ DpCap
    \/ DpTotal
    \/ DpReadback
    \/ DpScatter
    \/ DpSwap

SpecDecide == DecideInit /\ [][DecideNext]_vars

\* ------------------------------------------------------ the Adam pass (GPU)

AdamMaxPoints == 1
AdamMaxSteps == 1

\* f32 values are integers of a number grid on which 1.0 is One; products and
\* quotients round down to the grid
One == 60

\* AdamConfig: the learning rates, beta1 and beta2 as fractions, and epsilon
AdamConfig ==
    [lr_pos |-> 12, lr_color |-> 6, lr_opacity |-> 12, lr_scale |-> 6, lr_rot |-> 12,
     beta1 |-> [num |-> 1, den |-> 2],
     beta2 |-> [num |-> 1, den |-> 4],
     epsilon |-> 1]

\* beta * x and (1.0 - beta) * x
times(beta, x) == (beta.num * x) \div beta.den
one_minus_times(beta, x) == ((beta.den - beta.num) * x) \div beta.den

\* sqrt(x), rounded down
sqrt(x) == CHOOSE r \in 0..x : r * r <= x /\ x < (r + 1) * (r + 1)

\* faulty variant: the first moment is accumulated without its decay
adam_step_without_decay(param, grad, m, v, lr) ==
    LET m_new == m + one_minus_times(AdamConfig.beta1, grad)
        v_new == times(AdamConfig.beta2, v) + one_minus_times(AdamConfig.beta2, grad) * grad
        delta == ((0 - lr) * m_new) \div (sqrt(v_new) + AdamConfig.epsilon)
    IN [param |-> param + delta, m |-> m_new, v |-> v_new]

\* adam_step(param, grad, m, v, lr): (param_new, m_new, v_new)
adam_step(param, grad, m, v, lr) ==
    LET m_new == times(AdamConfig.beta1, m) + one_minus_times(AdamConfig.beta1, grad)
        v_new == times(AdamConfig.beta2, v) + one_minus_times(AdamConfig.beta2, grad) * grad
        delta == ((0 - lr) * m_new) \div (sqrt(v_new) + AdamConfig.epsilon)
    IN [param |-> param + delta, m |-> m_new, v |-> v_new]

\* normalize(q) of a vec4 that is not zero
normalize(q) ==
    LET len == sqrt(q[1] * q[1] + q[2] * q[2] + q[3] * q[3] + q[4] * q[4])
    IN [k \in 1..4 |-> (q[k] * One) \div len]

\* adam_step on the first lanes components of an OptVec4, the other lanes
\* set to rest (param), 0 (m) and 0 (v)
adam_vec(o, grad, lr, lanes, rest) ==
    LET res == [k \in 1..lanes |-> adam_step(o.param[k], grad[k], o.m[k], o.v[k], lr)]
    IN [param |-> [k \in 1..4 |-> IF k <= lanes THEN res[k].param ELSE rest],
        m |-> [k \in 1..4 |-> IF k <= lanes THEN res[k].m ELSE 0],
        v |-> [k \in 1..4 |-> IF k <= lanes THEN res[k].v ELSE 0]]

\* main for Gaussian idx: nothing when tile_counts[idx] is 0; otherwise the
\* position, rotation (then normalized), scale, opacity and the three DC
\* colour coefficients take one adam_step each; the other SH coefficients
\* (lane 4 of sh here) are not touched.
adam_main(o, g, tiles) ==
    IF tiles = 0 THEN o
    ELSE LET rot == adam_vec(o.rot, g.rot, AdamConfig.lr_rot, 4, 0)
             op == adam_step(o.opacity.param, g.opacity, o.opacity.m, o.opacity.v,
                             AdamConfig.lr_opacity)
             sh == [c \in 1..3 |-> adam_step(o.sh.param[c], g.color[c], o.sh.m[c],
                                             o.sh.v[c], AdamConfig.lr_color)]
         IN [pos |-> adam_vec(o.pos, g.pos, AdamConfig.lr_pos, 3, One),
             rot |-> [rot EXCEPT !.param = normalize(rot.param)],
             scale |-> adam_vec(o.scale, g.scale, AdamConfig.lr_scale, 3, 0),
             opacity |-> op,
             sh |-> [param |-> [c \in 1..4 |-> IF c <= 3 THEN sh[c].param ELSE o.sh.param[c]],
                     m |-> [c \in 1..4 |-> IF c <= 3 THEN sh[c].m ELSE o.sh.m[c]],
                     v |-> [c \in 1..4 |-> IF c <= 3 THEN sh[c].v ELSE o.sh.v[c]]]]

\* The optimizer state of one Gaussian: initBuffers unpacks the parameters
\* (position w = 1.0, scale w = 0.0, the rotation as stored, unit or not);
\* earlier steps left first moments mv / mf and second moments v.
AdamState(mv, mf, v, r) ==
    [pos |-> [param |-> <<One, 0, 0 - One, One>>, m |-> <<mv, mv, mv, 0>>,
              v |-> <<v, v, v, 0>>],
     rot |-> [param |-> <<r, 0, 0, 0>>, m |-> <<mv, mv, mv, mv>>, v |-> <<v, v, v, v>>],
     scale |-> [param |-> <<0, One, 0 - One, 0>>, m |-> <<mv, mv, mv, 0>>,
                v |-> <<v, v, v, 0>>],
     opacity |-> [param |-> One, m |-> mf, v |-> v],
     sh |-> [param |-> <<One, 0, One, One>>, m |-> <<mf, mf, mf, mf>>,
             v |-> <<v, v, v, v>>]]

AdamStates ==
    {AdamState(mv, mf, v, r) : mv \in {-4, 0, 4}, mf \in {0, 4}, v \in {0, 16},
                               r \in {One, 2 * One}}

\* the unpacked gradient of one Gaussian, every component g
AdamGradient(g) ==
    [pos |-> <<g, g, g>>, opacity |-> g, rot |-> <<g, g, g, g>>,
     scale |-> <<g, g, g>>, color |-> <<g, g, g>>]

AdamGradients == {AdamGradient(g) : g \in {0, 2}}

adamN == Len(adamOpt)

adamRest == <<gateVars, loopVars, obsVars, appVars, dpVars, scanVars, rangeVars, emitVars>>

\* the forward and backward passes of a training step leave the tile counts
\* and the gradients of every Gaussian
Backward(grads, tiles) ==
    /\ adamSteps < AdamMaxSteps
    /\ adamGrad = <<>>
    /\ adamGrad' = grads
    /\ tile_counts' = tiles
    /\ UNCHANGED <<adamOpt, adamSteps, adamRest>>

\* Optimizer.step: one dispatch of main over every Gaussian
AdamPass ==
    /\ adamGrad # <<>>
    /\ adamOpt' = [i \in 1..adamN |-> adam_main(adamOpt[i], adamGrad[i], tile_counts[i])]
    /\ adamSteps' = adamSteps + 1
    /\ adamGrad' = <<>>
    /\ UNCHANGED <<tile_counts, adamRest>>

AdamInit ==
    /\ maxInFlight = AppMaxInFlight
    /\ inFlight = 0
    /\ capacityWaiters = <<>>
    /\ idleWaiters = <<>>
    /\ works = <<>>
    /\ mq = <<>>
    /\ pc = [c \in AppProcs |-> "idle"]
    /\ waited = [c \in AppProcs |-> "free"]
    /\ lastEvent = "other"
    /\ TrainerInit
    /\ SyncedConfig
    /\ MainInit
    /\ DensifyOff
    /\ adamOpt \in UNION {[1..n -> AdamStates] : n \in 1..AdamMaxPoints}
    /\ adamGrad = <<>>
    /\ tile_counts = [i \in 1..Len(adamOpt) |-> 0]
    /\ adamSteps = 0
    /\ RangesOff
    /\ EmitOff

AdamNext ==
    \/ \E grads \in [1..adamN -> AdamGradients], tiles \in [1..adamN -> {0, 1}] :
           Backward(grads, tiles)
    \/ AdamPass

SpecAdam == AdamInit /\ [][AdamNext]_vars

\* ------------------------------------------------ the tile-range passes (GPU)

NumTiles == 2
MaxTileEntries == 4

\* 0xFFFFFFFF, as the 32-bit pattern read as a signed integer
U32_MAX == -1

\* a < b on u32 values
u32_less(a, b) ==
    \/ a >= 0 /\ (b < 0 \/ a < b)
    \/ a < 0 /\ b < 0 /\ a < b

\* key >> 16u, on the modelled keys (all below 2^31)
shr16(key) == key \div Half

\* make_tile_key(tile_id, depth_ordered) for a 16-bit quantized depth
tile_key(tile_id, depth_16) == (tile_id + 1) * Half + depth_16

\* get_tile_id(key)
get_tile_id(key) ==
    LET encoded_tile == shr16(key)
    IN IF encoded_tile = 0 THEN U32_MAX ELSE encoded_tile - 1

\* the keys a sorted buffer holds: 0, and keys of the tiles of the grid and
\* of one tile beyond it, at two depths
RangeKeys ==
    {0} \cup {tile_key(t, d) : t \in 0..NumTiles, d \in {0, 1}}

IsSortedPrefix(keys, n) ==
    \A i \in 1..n, j \in 1..n : i < j => keys[i] <= keys[j]

\* faulty variant: the offset is stored, the last invocation wins
atomicStoreLast(old, value) == value

\* atomicMin(&x, value): the new content of x
atomicMin(old, value) == IF u32_less(value, old) THEN value ELSE old

\* init_tile_offsets, invocation idx: the buffer after it
init_tile_offsets(idx, offsets) ==
    IF idx > total_tiles THEN offsets
    ELSE [offsets EXCEPT ![idx + 1] = U32_MAX]

\* build_tile_offsets, invocation idx: the buffer after it. The sentinel
\* store of invocation 0 and the atomicMin of any invocation never address
\* the same word (tile_id < total_tiles).
build_tile_offsets(idx, offsets) ==
    LET total_entries == total_tile_entries
        sentinel == IF idx = 0
                      THEN [offsets EXCEPT ![total_tiles + 1] = total_entries]
                      ELSE offsets
        key == sorted_keys[idx + 1]
        encoded_tile == shr16(key)
        tile_id == encoded_tile - 1
    IN IF idx >= total_entries THEN sentinel
       ELSE IF key = 0 THEN sentinel
       ELSE IF encoded_tile = 0 THEN sentinel
       ELSE IF tile_id >= total_tiles THEN sentinel
       ELSE [sentinel EXCEPT ![tile_id + 1] = atomicMin(sentinel[tile_id + 1], idx)]

rangeRest == <<gateVars, loopVars, obsVars, appVars, dpVars, scanVars, adamVars, emitVars>>

\* one invocation of init_tile_offsets; the dispatch is rounded up to whole
\* workgroups, here one invocation beyond total_tiles
InitTileOffsets(idx) ==
    /\ rangeStage = "init"
    /\ idx \in rangePending
    /\ tile_offsets' = init_tile_offsets(idx, tile_offsets)
    /\ rangePending' = rangePending \ {idx}
    /\ UNCHANGED <<rangeStage, total_tiles, sorted_keys, total_tile_entries, rangeRest>>

\* the init pass has ended; the build pass is dispatched over
\* maxTileEntries invocations
BeginBuildPass ==
    /\ rangeStage = "init"
    /\ rangePending = {}
    /\ rangeStage' = "build"
    /\ rangePending' = 0..(Len(sorted_keys) - 1)
    /\ UNCHANGED <<total_tiles, sorted_keys, total_tile_entries, tile_offsets, rangeRest>>

\* one invocation of build_tile_offsets
BuildTileOffsets(idx) ==
    /\ rangeStage = "build"
    /\ idx \in rangePending
    /\ tile_offsets' = build_tile_offsets(idx, tile_offsets)
    /\ rangePending' = rangePending \ {idx}
    /\ UNCHANGED <<rangeStage, total_tiles, sorted_keys, total_tile_entries, rangeRest>>

\* the build pass has ended
EndBuildPass ==
    /\ rangeStage = "build"
    /\ rangePending = {}
    /\ rangeStage' = "done"
    /\ UNCHANGED <<rangePending, total_tiles, sorted_keys, total_tile_entries,
                   tile_offsets, rangeRest>>

\* TiledRasterizer.render before its first pass: the sorter left the first
\* total_tile_entries keys in ascending order (the buffer holds
\* maxTileEntries keys, stale ones behind the sorted ones; the count is not
\* capped to the buffer) and tile_offsets holds zeros
RangesInit ==
    /\ maxInFlight = AppMaxInFlight
    /\ inFlight = 0
    /\ capacityWaiters = <<>>
    /\ idleWaiters = <<>>
    /\ works = <<>>
    /\ mq = <<>>
    /\ pc = [c \in AppProcs |-> "idle"]
    /\ waited = [c \in AppProcs |-> "free"]
    /\ lastEvent = "other"
    /\ TrainerInit
    /\ SyncedConfig
    /\ MainInit
    /\ DensifyOff
    /\ AdamOff
    /\ rangeStage = "init"
    /\ total_tiles = NumTiles
    /\ rangePending = 0..(total_tiles + 1)
    /\ total_tile_entries \in 0..(MaxTileEntries + 1)
    /\ sorted_keys \in [1..MaxTileEntries -> RangeKeys]
    /\ IsSortedPrefix(sorted_keys, Min(total_tile_entries, MaxTileEntries))
    /\ \A i \in 1..MaxTileEntries : i > total_tile_entries => sorted_keys[i] = tile_key(0, 0)
    /\ tile_offsets = [t \in 1..(total_tiles + 1) |-> 0]
    /\ EmitOff

RangesNext ==
    \/ \E idx \in 0..(NumTiles + 1) : InitTileOffsets(idx)
    \/ BeginBuildPass
    \/ \E idx \in 0..(MaxTileEntries - 1) : BuildTileOffsets(idx)
    \/ EndBuildPass

SpecRanges == RangesInit /\ [][RangesNext]_vars

\* --------------------------------------- key emission of the forward pass

EmitMaxPoints == 2

\* f32 and u32 values of this pass are bit patterns, as pairs <<high, low>>
\* of 16-bit halves. The modelled view-space depths:
\* -1.0, -0.0, 0.0, 1.0, 1.0000001, 2.0
DepthBits ==
    {<<49024, 0>>, <<32768, 0>>, <<0, 0>>, <<16256, 0>>, <<16256, 1>>, <<16384, 0>>}

\* faulty variant: the bits of the float are taken as they are
float_bits_as_uint(x) == x

\* float_to_ordered_uint(x): bits ^ 0xFFFFFFFF for a set sign bit, else
\* bits ^ 0x80000000
float_to_ordered_uint(x) ==
    IF x[1] >= Half \div 2
      THEN <<(Half - 1) - x[1], (Half - 1) - x[2]>>
      ELSE <<x[1] + Half \div 2, x[2]>>

\* quantize_depth_16(depth_ordered) = depth_ordered >> 16u
quantize_depth_16(depth_ordered) == depth_ordered[1]

\* make_tile_key(tile_id, depth_ordered): (tile_id + 1u) << 16u keeps the low
\* 16 bits of tile_id + 1
make_tile_key(tile_id, depth_ordered) ==
    <<(tile_id + 1) % Half, quantize_depth_16(depth_ordered)>>

\* the tiles a projected Gaussian covers, in the order emit_main walks
\* them: none, one or two of the first tiles, or the tiles 65534 and 65535
\* of a grid of more than 65535 tiles
TileRuns == {<<>>, <<0>>, <<0, 1>>, <<Half - 2, Half - 1>>}

\* a Gaussian as count_main projects it: its view-space depth and its tiles
EmitGaussians == [z : DepthBits, tiles : TileRuns]

emitN == Len(emitGaussians)

NoKey == [key |-> <<0, 0>>, tile |-> -1]

emitRest == <<gateVars, loopVars, obsVars, appVars, dpVars, scanVars, rangeVars,
              adamOpt, adamGrad, adamSteps>>

\* count_main, invocation idx: depths[idx] and tile_counts[idx]
CountMain(idx) ==
    /\ emitStage = "count"
    /\ idx \in emitPending
    /\ depths' = [depths EXCEPT ![idx] = float_to_ordered_uint(emitGaussians[idx].z)]
    /\ tile_counts' = [tile_counts EXCEPT ![idx] = Len(emitGaussians[idx].tiles)]
    /\ emitPending' = emitPending \ {idx}
    /\ UNCHANGED <<emitStage, emitGaussians, emit_offsets, tile_keys, tile_indices, emitRest>>

\* between the passes the prefix scanner turns tile_counts into the
\* per-Gaussian offsets
BeginEmitPass ==
    /\ emitStage = "count"
    /\ emitPending = {}
    /\ emit_offsets' = ExclusiveScan(tile_counts)
    /\ emitStage' = "emit"
    /\ emitPending' = 1..emitN
    /\ UNCHANGED <<emitGaussians, depths, tile_counts, tile_keys, tile_indices, emitRest>>

\* emit_main, invocation idx: one key and one index per covered tile, from
\* the Gaussian's offset on. Each key is kept with the tile it was made for.
EmitMain(idx) ==
    /\ emitStage = "emit"
    /\ idx \in emitPending
    /\ LET tiles == emitGaussians[idx].tiles
           start_offset == emit_offsets[idx]
           Mine(k) == k > start_offset /\ k <= start_offset + Len(tiles)
       IN /\ tile_keys' = [k \in DOMAIN tile_keys |->
                             IF tile_counts[idx] # 0 /\ Mine(k)
                               THEN [key |-> make_tile_key(tiles[k - start_offset], depths[idx]),
                                     tile |-> tiles[k - start_offset]]
                               ELSE tile_keys[k]]
          /\ tile_indices' = [k \in DOMAIN tile_indices |->
                                IF tile_counts[idx] # 0 /\ Mine(k) THEN idx
                                ELSE tile_indices[k]]
    /\ emitPending' = emitPending \ {idx}
    /\ emitStage' = IF emitPending = {idx} THEN "done" ELSE emitStage
    /\ UNCHANGED <<emitGaussians, depths, tile_counts, emit_offsets, emitRest>>

EmitInit ==
    /\ maxInFlight = AppMaxInFlight
    /\ inFlight = 0
    /\ capacityWaiters = <<>>
    /\ idleWaiters = <<>>
    /\ works = <<>>
    /\ mq = <<>>
    /\ pc = [c \in AppProcs |-> "idle"]
    /\ waited = [c \in AppProcs |-> "free"]
    /\ lastEvent = "other"
    /\ TrainerInit
    /\ SyncedConfig
    /\ MainInit
    /\ DensifyOff
    /\ adamOpt = <<>>
    /\ adamGrad = <<>>
    /\ adamSteps = 0
    /\ RangesOff
    /\ emitGaussians \in UNION {[1..n -> EmitGaussians] : n \in 1..EmitMaxPoints}
    /\ emitStage = "count"
    /\ emitPending = 1..Len(emitGaussians)
    /\ depths = [i \in 1..Len(emitGaussians) |-> <<0, 0>>]
    /\ tile_counts = [i \in 1..Len(emitGaussians) |-> 0]
    /\ emit_offsets = [i \in 1..Len(emitGaussians) |-> 0]
    /\ tile_keys = [k \in 1..(2 * Len(emitGaussians)) |-> NoKey]
    /\ tile_indices = [k \in 1..(2 * Len(emitGaussians)) |-> 0]

EmitNext ==
    \/ \E idx \in 1..EmitMaxPoints : CountMain(idx)
    \/ BeginEmitPass
    \/ \E idx \in 1..EmitMaxPoints : EmitMain(idx)

SpecEmit == EmitInit /\ [][EmitNext]_vars

\* ------------------------------------------------------ QueueGate claims

\* C1: the number of in-flight submissions never exceeds maxInFlight,
\* whatever the interleaving of submit, trySubmit and completion callbacks.
C1_InFlightNeverExceedsMax == inFlight <= maxInFlight

\* C4: a submit call made while the gate is full is parked (the event loop
\* keeps running other work), and its command buffers are handed to the GPU
\* queue only after a completion callback of an earlier submission has run.
C4_FullSubmitWaitsForCompletion ==
    \A c \in DOMAIN pc :
      /\ pc[c] = "doneWait" => waited[c] # "starved"
      /\ pc[c] = "capWait" =>
            /\ c \in Range(capacityWaiters)
            /\ \A i \in 1..Len(mq) : mq[i].c # c
            /\ \/ mq # <<>>
               \/ ENABLED GpuWorkDone

C4_Witness ==
    \E c \in DOMAIN pc : pc[c] = "doneWait" /\ waited[c] = "served"

\* C5: a caller that was suspended in waitForIdle resumes only with
\* inFlight = 0, also when the completion that emptied the gate released
\* suspended submit callers too.
C5_IdleResumeSeesIdleGate == lastEvent = "idleResumed" => inFlight = 0

\* C6: when queue.submit throws inside submit or trySubmit, inFlight keeps
\* its value and no completion callback is registered.
C6_ThrowLeavesGateUntouched ==
    [][lastEvent' = "submitThrew" => (inFlight' = inFlight /\ works' = works)]_vars

C6_Witness == lastEvent = "submitThrew" /\ inFlight > 0 /\ Len(works) = inFlight

\* ---------------------------------------------------- application claims

\* C2: whenever applyPointCloudSwap publishes a new point cloud and destroys
\* the old buffers, no submitted command buffer is still in flight
\* (inFlight = 0); a submission made between the idle wait returning and
\* the swap would show as inFlight > 0 at the swap.
C2_SwapWithNothingInFlight ==
    lastEvent \in {"swapApplied", "loadApplied"} => inFlight = 0

\* C3: applyPointCloudSwap never runs while a trainer.step() call (its
\* densify/prune phase included) is in progress, whichever path triggers it.
C3_SwapOnlyBetweenSteps ==
    lastEvent \in {"swapApplied", "loadApplied", "loadFirst"} =>
        stepPhase \notin StepBodyPhases

\* C7: after a training step has rejected, training is stopped: once the
\* step has settled isTraining is false, and the render loop starts no
\* step until start() is called again.
C7_FailedStepStopsTraining ==
    /\ (failedSinceStart /\ stepPhase = "none") => ~isTraining
    /\ lastEvent = "stepStarted" => ~failedSinceStart

\* C8: at all times, and so after every swap, the optimizer is built for
\* as many Gaussians as the point cloud holds, and its state buffers hold
\* exactly that many.
C8_OptimizerMatchesPointCloud ==
    /\ optimizerN = pointCloudN
    /\ optimizerBufN = pointCloudN

C8_Witness ==
    /\ lastEvent = "swapApplied"
    /\ pointCloudN >= 2
    /\ optimizerBufN = pointCloudN

\* --------------------------------------------------- densify/prune claims

RECURSIVE SumAll(_)
SumAll(a) == IF a = <<>> THEN 0 ELSE Head(a) + SumAll(Tail(a))

AfterTotal == dpStage \in {"readback", "scatter", "swap", "done"}

\* C9 (as stated): the total read back is the sum of the capped counts, and
\* the scene that results from the cycle holds exactly that many Gaussians.
C9_SceneHoldsTotal ==
    /\ AfterTotal => out_total = SumAll(out_counts)
    /\ dpStage = "done" => dpSceneN = out_total

\* C9 (amended): the total read back is the sum of the capped counts; the
\* resulting scene holds exactly that many Gaussians unless the total is 0,
\* in which case the cycle publishes nothing and the scene keeps its input
\* Gaussians.
C9_SceneHoldsTotalUnlessZero ==
    /\ AfterTotal => out_total = SumAll(out_counts)
    /\ dpStage = "done" =>
         dpSceneN = IF out_total = 0 THEN dpN ELSE out_total

C9_Witness ==
    /\ dpStage = "done"
    /\ dpWritten # {}
    /\ dpSceneN = out_total
    /\ dpSceneN # dpN
    /\ \E i \in 1..dpN : out_counts[i] # decide_count(dpGaussians[i])

\* C10: after the cap and the second scan the total is at most
\* max_out_points, and the scatter writes no slot at or beyond the size the
\* output buffers were allocated with.
C10_TotalWithinCapacity ==
    /\ AfterTotal => out_total <= dpMaxOut
    /\ \A w \in dpWritten : w.slot < allocatePointCloudLike(dpOutN)

C10_Witness ==
    /\ dpStage = "swap"
    /\ out_total = dpMaxOut
    /\ \E w \in dpWritten : w.slot = dpMaxOut - 1
    /\ \E i \in 1..dpN : out_counts[i] # decide_count(dpGaussians[i])

\* ------------------------------------------- optimizer scatter claims

\* the slots the claim calls new: CLONE slot 1 and both SPLIT slots
IsNewSlot(w) ==
    \/ out_actions[w.src] = SPLIT
    \/ (out_actions[w.src] = CLONE /\ w.variant = 1)

\* C11: in every optimizer-state scatter each written slot holds the
\* source's parameter and the source's (m, v), unless the slot is new and
\* reset_new_state is set, in which case (m, v) are zero.
C11_OptimizerScatterKeepsState ==
    \A w \in dpOptWritten :
      /\ w.val.param = Param(w.src, "copy")
      /\ IF IsNewSlot(w) /\ dpReset
           THEN w.val.m = 0 /\ w.val.v = 0
           ELSE w.val.m = w.src /\ w.val.v = w.src

\* ------------------------------------------------------ prefix scanner claims

\* a sum of u32 values as a natural number, <<high, low>> with low < 2^16 and
\* high not reduced
wide_add(w, a) ==
    LET low == w[2] + a[2]
    IN  <<w[1] + a[1] + (low \div Half), low % Half>>

RECURSIVE SumBelow(_, _)
\* the exact sum of a[0 .. i-1]
SumBelow(a, i) == IF i = 0 THEN <<0, 0>> ELSE wide_add(SumBelow(a, i - 1), a[i - 1])

\* a natural number reduced modulo 2^32
Wrap(w) == <<w[1] % Half, w[2]>>

ScanDone == scanStage = "done"

C13_OversizedScannerRejected == scanStage # "none" => scanMax <= MAX_ELEMENTS

\* ------------------------------------------------------ training loop claims

StepWorks == {i \in DOMAIN works : works[i] = "step"}

\* C14: the command buffer of training iteration k+1 is never handed to the
\* GPU queue before the GPU work submitted by iteration k has completed: the
\* queue never holds two submissions of the trainer at once, and a started
\* step finds none.
C14_IterationsDrainBeforeNext ==
    /\ Cardinality(StepWorks) <= 1
    /\ lastEvent = "stepStarted" => StepWorks = {}

\* C14 witness: the submission of a later iteration is in the queue
C14_Witness ==
    /\ iteration >= 1
    /\ stepPhase = "train"
    /\ StepWorks # {}

\* a transition of the step in progress, as opposed to one of another handler
StepActs == stepPhase' # stepPhase \/ pc'["step"] # pc["step"]

\* C15: no partial-iteration commits.  From the start of a step until its
\* training submission fails, the step changes neither the trainer's
\* iteration count, nor the current point cloud, nor the pending swap
\* request; only the optimizer's own counter moves, by one, before the
\* submission.
C15_FailedSubmissionCommitsNothing ==
    [][(StepActs /\ stepPhase \in {"none", "train"} /\ stepPhase' \in {"train", "rejected"})
         => /\ iteration' = iteration
            /\ pointCloudN' = pointCloudN
            /\ trainerPending' = trainerPending
            /\ statePending' = statePending
            /\ optimizerIteration' =
                 IF stepPhase = "none" THEN optimizerIteration + 1 ELSE optimizerIteration]_vars

\* C15 witness: the training submission of a later iteration has failed
C15_Witness ==
    /\ stepPhase = "rejected"
    /\ iteration >= 1
    /\ optimizerIteration > iteration

\* C16: a step in progress when stop() is called still runs to completion:
\* after its training submission it counts its iteration and enters the
\* densify/prune cycle scheduled for it, and it eventually settles.  No step
\* is started while training is stopped, and only start() (which resets the
\* iteration count) turns training on again.
C16_StoppedStepRunsToCompletion ==
    /\ [][/\ (stepPhase = "none" /\ stepPhase' # "none") => isTraining
          /\ (~isTraining /\ isTraining') => iteration' = 0
          /\ (~isTraining /\ stepPhase = "train" /\ stepPhase' \notin {"train", "rejected"})
               => /\ iteration' = iteration + 1
                  /\ IF shouldDensify THEN stepPhase' \in {"prep", "tail"}
                                      ELSE stepPhase' = "resolved"]_vars
    /\ (stepPhase \in StepBodyPhases /\ ~isTraining) ~> (stepPhase = "none")

\* C16 witness: a stopped trainer whose step has gone on to the scatter of
\* its densify/prune cycle
C16_Witness == ~isTraining /\ stepPhase = "scatter" /\ iteration >= 1

\* C17: max_iterations is the termination condition.  With max_iterations
\* left unchanged the iteration count never exceeds it, and once a step has
\* completed with the count at or above it, training is off and stays off
\* until start().
C17_StopsAtMaxIterations ==
    /\ iteration <= maxIterations
    /\ (stepPhase = "none" /\ iteration >= maxIterations) => ~isTraining

\* the schedule as stated: iteration i is followed by a densify/prune cycle
ScheduledAfter(i) ==
    /\ schedule.enabled
    /\ schedule.warmupIterations <= i
    /\ i <= schedule.stopIterations
    /\ \/ i = schedule.warmupIterations
       \/ (i - schedule.warmupIterations) % schedule.interval = 0

\* C18: with the schedule enabled, the step that completes iteration i goes
\* on to a densify/prune cycle exactly when warmup <= i <= stop and
\* (i = warmup or i - warmup is a multiple of interval).
C18_DensifyExactlyOnSchedule ==
    [][(stepPhase = "train" /\ stepPhase' \notin {"train", "rejected"})
         => (stepPhase' \in {"prep", "tail"} <=> ScheduledAfter(iteration'))]_vars

\* the iterations after the current one that the schedule follows with a
\* densify/prune cycle
ComingCycles ==
    {j \in (iteration + 1)..Max(iteration + 1, schedule.stopIterations) : ScheduledAfter(j)}

\* C19: the reported next densify iteration is the smallest iteration above
\* the current count that the current schedule follows with a densify/prune
\* cycle, and null exactly when there is none.
C19_NextDensifyIsNextScheduled ==
    getNextDensifyPruneIteration =
      IF ComingCycles = {} THEN NoIteration
      ELSE CHOOSE j \in ComingCycles : \A h \in ComingCycles : j <= h

\* ------------------------------------------------------ decision claims

\* C20: after the decide pass and again after the cap pass, every Gaussian
\* has out_count in {0,1,2} and out_action in {KEEP, CLONE, SPLIT, PRUNE},
\* with count 0 exactly for PRUNE, count 1 exactly for KEEP and count 2
\* exactly for CLONE or SPLIT.
C20_CountsMatchActions ==
    dpStage \notin {"off", "decide"} =>
      \A i \in 1..dpN :
        /\ out_counts[i] \in {0, 1, 2}
        /\ out_actions[i] \in {KEEP, CLONE, SPLIT, PRUNE}
        /\ out_counts[i] = 0 <=> out_actions[i] = PRUNE
        /\ out_counts[i] = 1 <=> out_actions[i] = KEEP
        /\ out_counts[i] = 2 <=> out_actions[i] \in {CLONE, SPLIT}

\* C20 witness: after the cap pass, with a Gaussian the cap degraded from two
\* outputs to one and another it cut to none
C20_Witness ==
    /\ dpStage = "scan2"
    /\ \E i \in 1..dpN : decide_count(dpGaussians[i]) = 2 /\ out_counts[i] = 1
    /\ \E i \in 1..dpN : decide_count(dpGaussians[i]) >= 1 /\ out_counts[i] = 0

\* ------------------------------------------------------ decide-pass claims

\* the largest exp(log_scale) of a Gaussian, in thousandths
LargestScale(g) ==
    CHOOSE s \in {exp(g.log_scale[k]) : k \in 1..3} :
        \A k \in 1..3 : exp(g.log_scale[k]) <= s

\* what the rule of the decide pass prescribes for one Gaussian
DecideRule(g, cfg) ==
    IF sigmoid(g.opacity_raw) < cfg.prune_opacity
      THEN [action |-> PRUNE, count |-> 0]
    ELSE IF g.metric_count >= cfg.clone_threshold_count
      THEN [action |-> IF LargestScale(g) >= cfg.split_scale_threshold
                         THEN SPLIT ELSE CLONE,
            count |-> 2]
    ELSE [action |-> KEEP, count |-> 1]

\* C21: right after the decide pass every Gaussian has PRUNE and count 0
\* when its sigmoid(opacity logit) is below the prune threshold; otherwise,
\* when its metric count reaches the clone threshold, count 2 with SPLIT if
\* its largest exp(log-scale) reaches the split threshold and CLONE if not;
\* otherwise KEEP and count 1.
C21_DecideFollowsThresholds ==
    dpStage = "scan1" =>
        \A i \in 1..dpN :
            /\ out_actions[i] = DecideRule(dpGaussians[i], dpConfig.decide).action
            /\ out_counts[i] = DecideRule(dpGaussians[i], dpConfig.decide).count

\* C21 witness: a decided Gaussian exactly at the prune threshold and at
\* the clone threshold, split because one of its scales reaches the split
\* threshold while another does not
C21_Witness ==
    /\ dpStage = "scan1"
    /\ \E i \in 1..dpN :
        LET g == dpGaussians[i]
            cfg == dpConfig.decide
        IN /\ sigmoid(g.opacity_raw) = cfg.prune_opacity
           /\ g.metric_count = cfg.clone_threshold_count
           /\ \E k \in 1..3 : exp(g.log_scale[k]) < cfg.split_scale_threshold
           /\ out_actions[i] = SPLIT
           /\ out_counts[i] = 2

\* ------------------------------------------------ point-cloud scatter claims

\* the words of source idx, untouched
Verbatim(idx) ==
    [pos |-> Param(idx, "copy"), opacity |-> Param(idx, "copy"),
     rot |-> Param(idx, "copy"), scale |-> Param(idx, "copy"),
     sh |-> Param(idx, "copy")]

\* C22: after the scatter, every Gaussian whose action is KEEP and whose
\* opacity is not clamped occupies an output slot whose packed Gaussian
\* words and packed SH words are exactly the words of the input.
C22_KeepIsCopiedVerbatim ==
    dpStage = "swap" =>
        \A idx \in 1..dpN :
            (out_actions[idx] = KEEP /\ idx \notin dpOpacityHigh) =>
                /\ \E w \in dpWritten : w.src = idx
                /\ \A w \in dpWritten : w.src = idx => w.val = Verbatim(idx)

\* C22 witness: a scatter that copied a kept Gaussian verbatim next to a
\* kept Gaussian whose opacity it clamped and a Gaussian it cloned
C22_Witness ==
    /\ dpStage = "swap"
    /\ \E w \in dpWritten :
        /\ out_actions[w.src] = KEEP
        /\ w.src \notin dpOpacityHigh
        /\ w.val = Verbatim(w.src)
    /\ \E w \in dpWritten :
        /\ out_actions[w.src] = KEEP
        /\ w.src \in dpOpacityHigh
        /\ w.val.opacity.op = "clamp"
    /\ \E w \in dpWritten : out_actions[w.src] = CLONE /\ w.copy = 1

\* ------------------------------------------------------------ Adam claims

\* an Adam dispatch in which every gradient is 0
ZeroGradientStep ==
    /\ adamSteps' = adamSteps + 1
    /\ \A i \in 1..adamN : adamGrad[i] = AdamGradient(0)

\* the record o with every first moment times beta1 and every second moment
\* times beta2
Decayed(o) ==
    [m |-> [k \in DOMAIN o.m |-> times(AdamConfig.beta1, o.m[k])],
     v |-> [k \in DOMAIN o.v |-> times(AdamConfig.beta2, o.v[k])]]

MomentsDecayed(o, n) ==
    /\ \A b \in {"pos", "rot", "scale"} :
        /\ n[b].m = Decayed(o[b]).m
        /\ n[b].v = Decayed(o[b]).v
    /\ n.opacity.m = times(AdamConfig.beta1, o.opacity.m)
    /\ n.opacity.v = times(AdamConfig.beta2, o.opacity.v)
    /\ \A c \in 1..3 :
        /\ n.sh.m[c] = times(AdamConfig.beta1, o.sh.m[c])
        /\ n.sh.v[c] = times(AdamConfig.beta2, o.sh.v[c])

ParamsUnchanged(o, n) ==
    \A b \in {"pos", "rot", "scale", "opacity", "sh"} : n[b].param = o[b].param

\* C23 as stated: with all gradients 0, one Adam step leaves every
\* parameter of every updated Gaussian unchanged and sets m to beta1 * m and
\* v to beta2 * v, whatever m and v were.
C23_ZeroGradientLeavesParameters ==
    [][ZeroGradientStep =>
          \A i \in 1..adamN :
              tile_counts[i] # 0 =>
                  /\ ParamsUnchanged(adamOpt[i], adamOpt'[i])
                  /\ MomentsDecayed(adamOpt[i], adamOpt'[i])]_vars

\* C23 amended: with all gradients 0, one Adam step sets m to beta1 * m and
\* v to beta2 * v for any m and v, and leaves unchanged every position,
\* scale, opacity and DC colour parameter whose first moment was 0; a
\* rotation whose first moments were 0 is replaced by its normalization.
C23_ZeroGradientDecaysMoments ==
    [][ZeroGradientStep =>
          \A i \in 1..adamN :
              tile_counts[i] # 0 =>
                  LET o == adamOpt[i]
                      n == adamOpt'[i]
                  IN /\ MomentsDecayed(o, n)
                     /\ \A b \in {"pos", "scale"} :
                            (\A k \in 1..3 : o[b].m[k] = 0) => n[b].param = o[b].param
                     /\ o.opacity.m = 0 => n.opacity.param = o.opacity.param
                     /\ (\A c \in 1..3 : o.sh.m[c] = 0) => n.sh.param = o.sh.param
                     /\ (\A k \in 1..4 : o.rot.m[k] = 0) =>
                            n.rot.param = normalize(o.rot.param)]_vars

\* C23 witness: after an Adam step with all gradients 0, an updated Gaussian
\* whose first moments were not 0
C23_Witness ==
    /\ adamSteps > 0
    /\ \E i \in 1..adamN :
        /\ tile_counts[i] # 0
        /\ adamOpt[i].pos.m[1] # 0
        /\ adamOpt[i].opacity.m # 0
        /\ \E s \in AdamStates :
            /\ MomentsDecayed(s, adamOpt[i])
            /\ s.pos.param # adamOpt[i].pos.param

\* ------------------------------------------------------ tile-range claims

\* the indices of the sorted key stream whose key decodes to tile t
EntriesOfTile(t) ==
    {i \in 0..(Min(total_tile_entries, Len(sorted_keys)) - 1) :
        get_tile_id(sorted_keys[i + 1]) = t}

bits_less(a, b) == a[1] < b[1] \/ (a[1] = b[1] /\ a[2] < b[2])

\* a < b on the finite f32 values with bit patterns a and b
f32_less(a, b) ==
    LET neg(x) == x[1] >= Half \div 2
        mag(x) == <<x[1] % (Half \div 2), x[2]>>
    IN \/ neg(a) /\ ~neg(b) /\ (mag(a) # <<0, 0>> \/ mag(b) # <<0, 0>>)
       \/ ~neg(a) /\ ~neg(b) /\ bits_less(mag(a), mag(b))
       \/ neg(a) /\ neg(b) /\ bits_less(mag(b), mag(a))

\* the emitted entries: slot, key, tile id and view-space depth
Emitted ==
    {[slot |-> k, key |-> tile_keys[k].key, tile |-> tile_keys[k].tile,
      z |-> emitGaussians[tile_indices[k]].z] :
        k \in {j \in DOMAIN tile_keys : tile_indices[j] # 0}}

\* C25 as stated: of any two emitted entries the one with the smaller tile
\* id has the smaller key, and of two entries of one tile the one with the
\* smaller view-space depth has the smaller key.
C25_KeyOrderIsTileThenDepth ==
    \A a \in Emitted, b \in Emitted :
        /\ a.tile < b.tile => bits_less(a.key, b.key)
        /\ (a.tile = b.tile /\ f32_less(a.z, b.z)) => bits_less(a.key, b.key)

\* C25 amended: of any two emitted entries with tile ids below 65535 the one
\* with the smaller tile id has the smaller key, and of two entries of one
\* tile the one with the smaller view-space depth never has the larger key;
\* their keys are equal when the depths agree in the upper 16 bits of the
\* ordered encoding.
C25_KeyOrderUpToQuantization ==
    \A a \in Emitted, b \in Emitted :
        (a.tile + 1 < Half /\ b.tile + 1 < Half) =>
            /\ a.tile < b.tile => bits_less(a.key, b.key)
            /\ (a.tile = b.tile /\ f32_less(a.z, b.z)) => ~bits_less(b.key, a.key)
            /\ (a.tile = b.tile /\ a.key = b.key) =>
                   float_to_ordered_uint(a.z)[1] = float_to_ordered_uint(b.z)[1]

\* C25 witness: all keys emitted, among them two entries of one tile with
\* different depths and the same key
C25_Witness ==
    /\ emitStage = "done"
    /\ \E a \in Emitted, b \in Emitted :
        a.tile = b.tile /\ f32_less(a.z, b.z) /\ a.key = b.key

\* ------------------------------------------------------ capacity claims

\* C26 as stated: after a densify/prune cycle the scene holds at most
\* max_new_points_per_step Gaussians more than before it.
C26_GrowthWithinMaxNewPoints ==
    dpStage = "done" => dpSceneN - dpN <= dpConfig.maxNewPointsPerStep

\* C26 amended: after a densify/prune cycle with a positive
\* max_new_points_per_step the scene holds at most that many Gaussians more
\* than before it; with 0 the growth is limited by the buffer size only.
C26_GrowthWithinPositiveMaxNewPoints ==
    dpStage = "done" =>
        /\ dpConfig.maxNewPointsPerStep > 0 =>
               dpSceneN - dpN <= dpConfig.maxNewPointsPerStep
        /\ dpSceneN <= Max(dpN, dpMaxOut)

\* C26 witness: a finished cycle that decided for more new Gaussians than
\* a positive max_new_points_per_step and grew the scene by exactly it
C26_Witness ==
    /\ dpStage = "done"
    /\ dpConfig.maxNewPointsPerStep > 0
    /\ SumAll([i \in 1..dpN |-> decide_count(dpGaussians[i])])
           > dpN + dpConfig.maxNewPointsPerStep
    /\ dpSceneN = dpN + dpConfig.maxNewPointsPerStep

\* ------------------------------------------------------ render loop claims

\* the render loop calls trainer.step()
StepStarts ==
    /\ lastEvent' = "stepStarted"
    /\ mq = <<>>
    /\ stepPhase' # stepPhase \/ optimizerIteration' # optimizerIteration

\* C27: at most one trainer.step() call is in progress at any time.  The
\* render loop starts a step only when no earlier step (its densify phase
\* included) and no point-cloud swap is in progress; trainingBusy is set
\* for as long as either is, and a swap never runs beside a step.
C27_OneStepAtATime ==
    /\ [](/\ stepPhase # "none" => trainingBusy
          /\ swapBusy => trainingBusy /\ stepPhase = "none"
          /\ pc["swap"] # "idle" => swapBusy)
    /\ [][StepStarts => stepPhase = "none" /\ ~swapBusy /\ ~trainingBusy]_vars

\* C27 witness: while training is on, the swap requested by a densify/prune
\* cycle is waiting for the queue to drain and holds trainingBusy, after at
\* least one whole step
C27_Witness ==
    /\ isTraining
    /\ iteration >= 1
    /\ swapBusy
    /\ trainingBusy
    /\ stepPhase = "none"
    /\ pc["swap"] # "idle"
    /\ swapNext.optN # 0
    /\ inFlight > 0

\* a swap request of the trainer that applyPendingPointCloudSwap has not
\* taken up yet
SwapPending == trainerPending # NoReq \/ statePending # NoReq

\* applyPendingPointCloudSwap has run to its end for a request
SwapSettled ==
    /\ lastEvent \in {"swapApplied", "swapThrew"}
    /\ ~swapBusy /\ ~trainingBusy /\ swapNext = NoReq

\* C28: every swap request produced by a densify/prune cycle is eventually
\* taken up by applyPendingPointCloudSwap, which runs to its end with
\* swapBusy and trainingBusy cleared (also when applying throws); no
\* training step starts while a request is outstanding; and applying a
\* request installs that request's point cloud and leaves no request behind.
C28_SwapRequestEventuallyApplied ==
    /\ SwapPending ~> SwapSettled
    /\ [][StepStarts => ~SwapPending /\ swapNext = NoReq /\ ~swapBusy]_vars
    /\ [][(lastEvent' = "swapApplied" /\ lastEvent # "swapApplied") =>
            /\ swapNext # NoReq /\ pointCloudN' = swapNext.n
            /\ swapNext' = NoReq /\ ~SwapPending']_vars

\* ------------------------------------------------------ wake-up claims

\* a step in which submitInternal calls queue.submit, whether the call
\* returns or throws
Submission == inFlight' = inFlight + 1 \/ lastEvent' = "submitThrew"

\* C29: when every submitted work completes, a submit() call parked in
\* capacityWaiters is eventually resumed and calls submitInternal, and a
\* waitForIdle() call parked in idleWaiters eventually resumes unless
\* submissions are made for ever.
C29_NoLostWakeups ==
    /\ \A c \in GateClients : (pc[c] = "capWait") ~> (pc[c] \in {"doneWait", "idle"})
    /\ \/ []<><<Submission>>_vars
       \/ \A c \in GateClients : (pc[c] = "idleWait") ~> (pc[c] = "idle")

\* a parked submit() and a parked waitForIdle() at the same time
C29_Witness ==
    /\ \E c \in GateClients : pc[c] = "capWait" /\ c \in Range(capacityWaiters)
    /\ \E c \in GateClients : pc[c] = "idleWait" /\ c \in Range(idleWaiters)
    /\ works # <<>>

\* ------------------------------------------------- scatter slot claims

\* the output slots the threads of scatter_gaussians_main wrote
WrittenSlots == {w.slot : w \in dpWritten}

\* C30: with the final offsets and the capped counts, no output slot is
\* written by two threads or twice by one (each slot has one source and
\* one copy number), and the written slots are exactly 0 .. N_out-1, the
\* size the output buffers were allocated with.
C30_SlotsWrittenExactlyOnce ==
    dpStage = "swap" =>
      /\ \A w1, w2 \in dpWritten :
           w1.slot = w2.slot => w1.src = w2.src /\ w1.copy = w2.copy
      /\ WrittenSlots = 0..(allocatePointCloudLike(dpOutN) - 1)
      /\ Cardinality(dpWritten) = dpOutN

\* a capped cycle with a pruned Gaussian between a cloned one and a kept
\* one: three threads, two slots from one of them
C30_Witness ==
    /\ dpStage = "swap"
    /\ dpOutN >= 3
    /\ \E i \in 1..dpN : out_counts[i] = 2
    /\ \E i \in 1..dpN : out_counts[i] = 0
    /\ \E i \in 1..dpN : out_counts[i] # decide_count(dpGaussians[i])
    /\ \E w \in dpWritten : w.copy = 1 /\ w.slot = out_offsets[w.src] + 1

====
